---- MODULE Spec2Model ----
(***************************************************************************)
(* Verification model of the inbound-examples repository.                  *)
(*                                                                         *)
(*   Spec           the domain setup wizard (DomainsDashboard): component  *)
(*                  state, the two localStorage entries, the create and    *)
(*                  refresh requests and the mount/save effects.           *)
(*   SpecValidator  the domain validator (domainSchema) as a pure function *)
(*                  over bounded strings.                                  *)
(*   SpecServer     the server endpoints: the three /api/inbound webhook   *)
(*                  receivers, /api/replytothis and the Next.js proxy      *)
(*                  routes, one request at a time.                         *)
(*   SpecFirstVisit the wizard on a browser with an empty localStorage.    *)
(*   SpecWizardLive SpecFirstVisit with every fetch of the wizard settling.*)
(*   SpecReplay     the AI-analysis webhook under redelivery, with the     *)
(*                  upstream's idempotency keys.                           *)
(*   SpecStrip      removeForwardedContent as a function of its input.     *)
(*   SpecComposer   the compose/reply dialog of the mail client.           *)
(*   SpecClient     the gateway client: construction and makeRequest.      *)
(*   SpecViewer     the thread list and thread detail queries and views.   *)
(*   SpecCopy       the copy indicator of the wizard and its timers.       *)
(*                                                                         *)
(* React semantics assumed for the wizard: state updates issued in one     *)
(* handler continuation are batched into one render, an effect runs after  *)
(* the first render and after every render in which one of its             *)
(* dependencies changed (Object.is), effects run in declaration order, and *)
(* each effect runs once per mount (production build).                     *)
(***************************************************************************)
EXTENDS Integers, Sequences, FiniteSets, TLC

VARIABLES
    \* ---- wizard (src/unnamed/part_005) ----
    mounted,              \* the component has been mounted on the current page
    domainData,           \* useState<DomainData | null>
    currentStep,          \* useState(1)
    isLoading,            \* useState(false)
    error,                \* useState<string | null>
    isDnsConfigExpanded,  \* useState(true)
    localStorage,         \* function from the present keys to their text
    inflight,             \* the fetch the page is awaiting, if any
    lastEvent,            \* history: the wizard handler that ran last
    \* ---- validator (domainSchema) ----
    vInput,               \* the string handed to the validator
    vResult,              \* "none" before validation, then "accept" / "reject"
    \* ---- server endpoints ----
    req,                  \* the request being handled
    pc,                   \* position of the handler
    responses,            \* sequence of HTTP responses written for the request
    effects,              \* sequence of side effects performed for the request
    thrown,               \* message of the error raised in the handler, if any
    background,           \* state of the task handed to waitUntil
    express,              \* major version of express the build resolved
    \* ---- AI-analysis webhook under redelivery (src/unnamed/part_007) ----
    deliveries,           \* one analyzeEmail task per webhook delivery
    attempts,             \* the reply calls issued, with their options
    upstreamKeys,         \* idempotency keys the upstream has accepted
    outbound,             \* the replies the upstream has sent out
    \* ---- forward stripping (removeForwardedContent) ----
    html,                 \* the HTML handed to removeForwardedContent
    cleaned,              \* its result, once it has run
    \* ---- mail composer (src/inbound-mail: page.tsx, compose-dialog.tsx) ----
    composeDialogOpen,    \* Page: useState(false)
    replyData,            \* Page: useState<... | null>(null)
    formData,             \* ComposeDialog: to, cc, bcc, subject, body
    isHtmlMode,           \* ComposeDialog: useState(false)
    sendEmailMutation,    \* state of the send mutation
    replyEmailMutation,   \* state of the reply mutation
    mutationCalls,        \* the mutationFn calls in flight
    queryCache,           \* the cached thread list and thread detail
    submitted,            \* history: the form as it was at the last submit
    composerEvent,        \* history: the composer handler that ran last
    \* ---- gateway client (InboundClient, src/unnamed/part_001) ----
    apiKeyEnv,            \* API_KEY: the environment's key or ''
    inboundClient,        \* the InboundClient instance, once constructed
    clientCall,           \* the operation of InboundClient being performed
    fetches,              \* the fetch calls issued by makeRequest
    operations,           \* history: number of operations called
    upstreamResponse,     \* what the fetch of makeRequest settles with
    clientResult,         \* how the promise of makeRequest settled
    \* ---- mail viewer (part_000, thread-detail.tsx, app-sidebar.tsx) ----
    viewerMounted,        \* the page with the sidebar and the detail pane is mounted
    showUnreadsOnly,      \* AppSidebar: useState(false)
    selectedThreadId,     \* Page: useState<string | null>(null)
    threadsQueries,       \* the list queries, by unreadOnly of their key
    threadQueries,        \* the detail queries, by thread id of their key
    viewerFetches,        \* the requests the query functions have issued
    \* ---- copy indicator of the wizard (copyToClipboard, part_005) ----
    copiedField,          \* DomainsDashboard: useState<string | null>(null)
    clipboardWrites,      \* the navigator.clipboard.writeText calls awaited
    timers,               \* the pending setTimeout callbacks, oldest first
    copies,               \* number of copyToClipboard calls so far
    indicatorCopy         \* history: the call that set copiedField last

wizardVars == <<mounted, domainData, currentStep, isLoading, error,
                isDnsConfigExpanded, localStorage, inflight, lastEvent>>
validatorVars == <<vInput, vResult>>
serverVars == <<req, pc, responses, effects, thrown, background, express>>
replayVars == <<deliveries, attempts, upstreamKeys, outbound>>
stripVars == <<html, cleaned>>
composerVars == <<composeDialogOpen, replyData, formData, isHtmlMode, sendEmailMutation,
                  replyEmailMutation, mutationCalls, queryCache, submitted, composerEvent>>
clientVars == <<apiKeyEnv, inboundClient, clientCall, fetches, operations,
               upstreamResponse, clientResult>>
viewerVars == <<viewerMounted, showUnreadsOnly, selectedThreadId, threadsQueries,
               threadQueries, viewerFetches>>
copyVars == <<copiedField, clipboardWrites, timers, copies, indicatorCopy>>
vars == <<wizardVars, validatorVars, serverVars, replayVars, stripVars, composerVars, clientVars, viewerVars, copyVars>>

\* what the actions of one part leave alone
nonWizardVars == <<validatorVars, serverVars, replayVars, stripVars, composerVars, clientVars, viewerVars, copyVars>>
nonValidatorVars == <<wizardVars, serverVars, replayVars, stripVars, composerVars, clientVars, viewerVars, copyVars>>
nonServerVars == <<wizardVars, validatorVars, replayVars, stripVars, composerVars, clientVars, viewerVars, copyVars>>
nonReplayVars == <<wizardVars, validatorVars, serverVars, stripVars, composerVars, clientVars, viewerVars, copyVars>>
nonStripVars == <<wizardVars, validatorVars, serverVars, replayVars, composerVars, clientVars, viewerVars, copyVars>>
nonComposerVars == <<wizardVars, validatorVars, serverVars, replayVars, stripVars, clientVars, viewerVars, copyVars>>
nonClientVars == <<wizardVars, validatorVars, serverVars, replayVars, stripVars, composerVars, viewerVars, copyVars>>
nonViewerVars == <<wizardVars, validatorVars, serverVars, replayVars, stripVars, composerVars, clientVars, copyVars>>
nonCopyVars == <<wizardVars, validatorVars, serverVars, replayVars, stripVars, composerVars, clientVars, viewerVars>>

----------------------------------------------------------------------------
(* Bounds *)

\* longest step text placed in localStorage before the first mount
MaxStepTextLen == 2
\* longest string over the full alphabet handed to the validator
MaxDomainLen == 4
\* longest DNS record list in a response
MaxRecords == 2
\* most operations called on one InboundClient
MaxClientCalls == 2
\* most requests issued by the queries of the mail viewer
MaxViewerFetches == 4
\* most clicks on the copy buttons
MaxCopies == 3

----------------------------------------------------------------------------
(* Generic helpers *)

RECURSIVE SeqsUpTo(_, _)
SeqsUpTo(S, n) ==
    IF n = 0 THEN {<<>>}
    ELSE LET shorter == SeqsUpTo(S, n - 1)
         IN shorter \cup {Append(s, c) : s \in {t \in shorter : Len(t) = n - 1}, c \in S}

Range(s) == {s[i] : i \in 1..Len(s)}

----------------------------------------------------------------------------
(* JSON values of the wizard: DomainData objects and null *)

JNull == [t |-> "null"]

RecordTypes == {"TXT", "MX"}
RecordLists == SeqsUpTo(RecordTypes, MaxRecords)

\* The objects a 200 response of POST /api/domains can carry: id, status,
\* hasMxRecords and optionally dnsRecords (no verificationCheck).
CreatePayloads ==
    {[t |-> "object", id |-> "d1", status |-> s, hasMxRecords |-> m] :
        s \in {"pending", "verified"}, m \in BOOLEAN}
    \cup
    {[t |-> "object", id |-> "d1", status |-> s, hasMxRecords |-> m, dnsRecords |-> r] :
        s \in {"pending", "verified"}, m \in BOOLEAN, r \in RecordLists}

\* GET /api/domains/{id}?check=true adds verificationCheck.dnsRecords and
\* may report "failed".
CheckPayloads ==
    {[t |-> "object", id |-> "d1", status |-> s, hasMxRecords |-> m,
      verificationCheck |-> [dnsRecords |-> r]] :
        s \in {"pending", "verified", "failed"}, m \in BOOLEAN,
        r \in {<<>>, <<"TXT", "MX">>}}
    \cup
    {[t |-> "object", id |-> "d1", status |-> s, hasMxRecords |-> m, dnsRecords |-> <<"TXT">>] :
        s \in {"pending", "verified", "failed"}, m \in BOOLEAN}

\* an object without an id (refreshDomain's guard)
NoIdPayload == [t |-> "object", status |-> "pending", hasMxRecords |-> FALSE]

Payloads == CreatePayloads \cup CheckPayloads \cup {NoIdPayload}

Has(obj, key) == key \in DOMAIN obj

----------------------------------------------------------------------------
(* JSON.stringify / JSON.parse over token sequences.  A text is a sequence *)
(* of tokens: "{" "}" "[" "]" "null" "true" "false", keys and strings.     *)

StructuralTokens == {"{", "}", "[", "]", "null", "true", "false"}

BoolText(b) == IF b THEN "true" ELSE "false"

ListText(l) == <<"[">> \o l \o <<"]">>

\* JSON.stringify(value): keys in the order the API sends them
Stringify(v) ==
    IF v = JNull THEN <<"null">>
    ELSE <<"{">>
         \o (IF Has(v, "id") THEN <<"id", v.id>> ELSE <<>>)
         \o <<"status", v.status>>
         \o <<"hasMxRecords", BoolText(v.hasMxRecords)>>
         \o (IF Has(v, "dnsRecords") THEN <<"dnsRecords">> \o ListText(v.dnsRecords) ELSE <<>>)
         \o (IF Has(v, "verificationCheck")
             THEN <<"verificationCheck", "{", "dnsRecords">>
                  \o ListText(v.verificationCheck.dnsRecords) \o <<"}">>
             ELSE <<>>)
         \o <<"}">>

ParseFail == [ok |-> FALSE]

\* the items of an array whose "[" is at position i - 1
RECURSIVE ParseItems(_, _, _)
ParseItems(toks, i, acc) ==
    IF i > Len(toks) THEN ParseFail
    ELSE IF toks[i] = "]" THEN [ok |-> TRUE, value |-> acc, next |-> i + 1]
    ELSE IF toks[i] \in StructuralTokens THEN ParseFail
    ELSE ParseItems(toks, i + 1, Append(acc, toks[i]))

ParseList(toks, i) ==
    IF i > Len(toks) \/ toks[i] # "[" THEN ParseFail
    ELSE ParseItems(toks, i + 1, <<>>)

\* the members of an object whose "{" is at position i - 1; a repeated key
\* keeps its last value
RECURSIVE ParseMembers(_, _, _)
ParseMembers(toks, i, acc) ==
    IF i > Len(toks) THEN ParseFail
    ELSE IF toks[i] = "}" THEN [ok |-> TRUE, value |-> acc, next |-> i + 1]
    ELSE IF i + 1 > Len(toks) THEN ParseFail
    ELSE LET key == toks[i] IN
         CASE key \in {"id", "status"} ->
                IF toks[i + 1] \in StructuralTokens THEN ParseFail
                ELSE ParseMembers(toks, i + 2, (key :> toks[i + 1]) @@ acc)
           [] key = "hasMxRecords" ->
                IF toks[i + 1] \notin {"true", "false"} THEN ParseFail
                ELSE ParseMembers(toks, i + 2, (key :> (toks[i + 1] = "true")) @@ acc)
           [] key = "dnsRecords" ->
                LET l == ParseList(toks, i + 1) IN
                IF ~l.ok THEN ParseFail
                ELSE ParseMembers(toks, l.next, (key :> l.value) @@ acc)
           [] key = "verificationCheck" ->
                IF toks[i + 1] # "{" THEN ParseFail
                ELSE LET o == ParseMembers(toks, i + 2, <<>>) IN
                     IF ~o.ok THEN ParseFail
                     ELSE ParseMembers(toks, o.next, (key :> o.value) @@ acc)
           [] OTHER -> ParseFail

\* JSON.parse(text): ok = FALSE stands for the SyntaxError it throws
Parse(toks) ==
    IF toks = <<"null">> THEN [ok |-> TRUE, value |-> JNull]
    ELSE IF Len(toks) = 0 \/ toks[1] # "{" THEN ParseFail
    ELSE LET o == ParseMembers(toks, 2, [t |-> "object"]) IN
         IF o.ok /\ o.next = Len(toks) + 1
         THEN [ok |-> TRUE, value |-> o.value]
         ELSE ParseFail

----------------------------------------------------------------------------
(* Number.prototype.toString and parseInt(text, 10) over character         *)
(* sequences                                                               *)

Digits == <<"0", "1", "2", "3", "4", "5", "6", "7", "8", "9">>
DigitChars == Range(Digits)
WhiteSpace == {" "}

DigitVal(c) == (CHOOSE i \in 1..10 : Digits[i] = c) - 1

RECURSIVE NumberToString(_)
NumberToString(n) ==
    IF n < 10 THEN <<Digits[n + 1]>>
    ELSE Append(NumberToString(n \div 10), Digits[(n % 10) + 1])

RECURSIVE SkipWhiteSpace(_, _)
SkipWhiteSpace(s, i) ==
    IF i <= Len(s) /\ s[i] \in WhiteSpace THEN SkipWhiteSpace(s, i + 1) ELSE i

RECURSIVE ReadDigits(_, _, _, _)
ReadDigits(s, i, n, seen) ==
    IF i <= Len(s) /\ s[i] \in DigitChars
    THEN ReadDigits(s, i + 1, 10 * n + DigitVal(s[i]), TRUE)
    ELSE [nan |-> ~seen, val |-> n]

\* parseInt: leading white space, an optional sign, then the longest digit
\* prefix; NaN when there is no digit
ParseInt(s) ==
    LET i == SkipWhiteSpace(s, 1)
        signed == i <= Len(s) /\ s[i] \in {"-", "+"}
        j == IF signed THEN i + 1 ELSE i
        r == ReadDigits(s, j, 0, FALSE)
    IN IF signed /\ s[i] = "-" THEN [nan |-> r.nan, val |-> 0 - r.val] ELSE r

----------------------------------------------------------------------------
(* domainSchema: z.string().min(1).regex(...).refine(...)                  *)

LowerCase == {"a", "b", "c", "d", "e", "f", "g", "h", "i", "j", "k", "l", "m",
              "n", "o", "p", "q", "r", "s", "t", "u", "v", "w", "x", "y", "z"}
UpperCase == {"A", "B", "C", "D", "E", "F", "G", "H", "I", "J", "K", "L", "M",
              "N", "O", "P", "Q", "R", "S", "T", "U", "V", "W", "X", "Y", "Z"}
Letters == LowerCase \cup UpperCase

\* the character class [a-zA-Z0-9-]
LabelClass == Letters \cup DigitChars \cup {"-"}

\* part.length <= 63
MaxLabelLen == 63
\* {2,} in the top-level label pattern
MinTldLen == 2

\* position after the longest run of class characters starting at i
RECURSIVE RunEnd(_, _, _)
RunEnd(s, i, class) ==
    IF i <= Len(s) /\ s[i] \in class THEN RunEnd(s, i + 1, class) ELSE i

\* (\.[a-zA-Z0-9-]+)+$ from position i, n groups matched so far
RECURSIVE DotGroups(_, _, _)
DotGroups(s, i, n) ==
    IF i = Len(s) + 1 THEN n >= 1
    ELSE IF s[i] # "." THEN FALSE
    ELSE LET e == RunEnd(s, i + 1, LabelClass) IN
         IF e = i + 1 THEN FALSE ELSE DotGroups(s, e, n + 1)

\* /^[a-zA-Z0-9-]+(\.[a-zA-Z0-9-]+)+$/
DomainRegex(s) ==
    LET e == RunEnd(s, 1, LabelClass) IN e > 1 /\ DotGroups(s, e, 0)

\* String.prototype.includes / startsWith / endsWith
Includes(s, sub) ==
    \E i \in 1..(Len(s) - Len(sub) + 1) : SubSeq(s, i, i + Len(sub) - 1) = sub
StartsWith(s, sub) == Len(s) >= Len(sub) /\ SubSeq(s, 1, Len(sub)) = sub
EndsWith(s, sub) == Len(s) >= Len(sub) /\ SubSeq(s, Len(s) - Len(sub) + 1, Len(s)) = sub

\* String.prototype.split(sep) for a one-character separator
RECURSIVE Split(_, _)
Split(s, sep) ==
    IF \A i \in 1..Len(s) : s[i] # sep THEN <<s>>
    ELSE LET k == CHOOSE i \in 1..Len(s) : s[i] = sep /\ \A j \in 1..(i - 1) : s[j] # sep
         IN <<SubSeq(s, 1, k - 1)>> \o Split(SubSeq(s, k + 1, Len(s)), sep)

\* /^[a-zA-Z]{2,}$/
TldRegex(part) == Len(part) >= MinTldLen /\ RunEnd(part, 1, Letters) = Len(part) + 1

\* PartOk with the length limit off by one
PartOkShortLimit(part) ==
    /\ Len(part) > 0
    /\ Len(part) < MaxLabelLen
    /\ ~StartsWith(part, <<"-">>)
    /\ ~EndsWith(part, <<"-">>)

PartOk(part) ==
    /\ Len(part) > 0
    /\ Len(part) <= MaxLabelLen
    /\ ~StartsWith(part, <<"-">>)
    /\ ~EndsWith(part, <<"-">>)

\* the .refine() predicate
DomainRefine(domain) ==
    LET parts == Split(domain, ".") IN
    /\ ~Includes(domain, <<".", ".">>)
    /\ ~StartsWith(domain, <<".">>)
    /\ ~EndsWith(domain, <<".">>)
    /\ ~StartsWith(domain, <<"-">>)
    /\ ~EndsWith(domain, <<"-">>)
    /\ \A i \in 1..Len(parts) : PartOk(parts[i])
    /\ TldRegex(parts[Len(parts)])

\* the schema accepts when no check raises an issue
DomainSchemaAccepts(domain) ==
    /\ Len(domain) >= 1
    /\ DomainRegex(domain)
    /\ DomainRefine(domain)

----------------------------------------------------------------------------
(* The wizard: localStorage and the persistence effects                    *)

DOMAIN_DATA_KEY == "inbound_domain_data"
CURRENT_STEP_KEY == "inbound_current_step"

EmptyStorage == [k \in {} |-> <<>>]

SetItem(ls, key, text) == [k \in (DOMAIN ls) \cup {key} |-> IF k = key THEN text ELSE ls[k]]
RemoveItem(ls, key) == [k \in (DOMAIN ls) \ {key} |-> ls[k]]
\* getItem(key) is truthy: the entry is present and not the empty string
ItemTruthy(ls, key) == key \in DOMAIN ls /\ ls[key] # <<>>

\* first and last wizard step
FirstStep == 1
LastStep == 4

NoError == "null"

\* useEffect(..., [domainData])
SaveDomainEffect(ls, dd) ==
    IF dd # JNull THEN SetItem(ls, DOMAIN_DATA_KEY, Stringify(dd))
    ELSE RemoveItem(ls, DOMAIN_DATA_KEY)

\* SaveStepEffect that never writes the entry
SaveStepEffectNoWrite(ls, step) == ls

\* useEffect(..., [currentStep])
SaveStepEffect(ls, step) == SetItem(ls, CURRENT_STEP_KEY, NumberToString(step))

\* Object.is on the domainData dependency: an object handed to setDomainData
\* is a new reference; null is the same value as null
DomainChanged(oldDD, newDD, fresh) ==
    IF newDD = JNull THEN oldDD # JNull ELSE fresh

\* the effects of the render that follows a batch of state updates
RunSaveEffects(ls, oldDD, newDD, fresh, oldStep, newStep) ==
    LET ls1 == IF DomainChanged(oldDD, newDD, fresh) THEN SaveDomainEffect(ls, newDD) ELSE ls
    IN IF newStep # oldStep THEN SaveStepEffect(ls1, newStep) ELSE ls1

\* the load effect: what it hands to setDomainData / setCurrentStep and
\* what it leaves in localStorage
LoadEffect(ls) ==
    LET parsed == IF ItemTruthy(ls, DOMAIN_DATA_KEY) THEN Parse(ls[DOMAIN_DATA_KEY])
                  ELSE [ok |-> TRUE, value |-> JNull]
        n == IF ItemTruthy(ls, CURRENT_STEP_KEY) THEN ParseInt(ls[CURRENT_STEP_KEY])
             ELSE [nan |-> TRUE, val |-> 0]
    IN IF ~parsed.ok
       THEN \* catch: clear corrupted data
            [domainData |-> JNull, setDomain |-> FALSE, currentStep |-> FirstStep,
             ls |-> RemoveItem(RemoveItem(ls, DOMAIN_DATA_KEY), CURRENT_STEP_KEY)]
       ELSE [domainData |-> parsed.value,
             setDomain |-> ItemTruthy(ls, DOMAIN_DATA_KEY),
             currentStep |-> IF ~n.nan /\ n.val >= FirstStep /\ n.val <= LastStep
                             THEN n.val ELSE FirstStep,
             ls |-> ls]

\* mount: load effect, then the two save effects of the first render (state
\* still at its defaults), then the save effects of the render that applies
\* the loaded state
MountResult(ls) ==
    LET loaded == LoadEffect(ls)
        ls1 == SaveStepEffect(SaveDomainEffect(loaded.ls, JNull), FirstStep)
    IN [domainData |-> loaded.domainData,
        currentStep |-> loaded.currentStep,
        ls |-> RunSaveEffects(ls1, JNull, loaded.domainData, loaded.setDomain,
                              FirstStep, loaded.currentStep)]

\* getDnsRecords without the fallback to the direct dnsRecords field
getDnsRecordsNoFallback(dd) ==
    IF dd = JNull THEN <<>>
    ELSE IF Has(dd, "verificationCheck") /\ Has(dd.verificationCheck, "dnsRecords")
         THEN dd.verificationCheck.dnsRecords
    ELSE <<>>

\* getDnsRecords
getDnsRecords(dd) ==
    IF dd = JNull THEN <<>>
    ELSE IF Has(dd, "verificationCheck") /\ Has(dd.verificationCheck, "dnsRecords")
         THEN dd.verificationCheck.dnsRecords
    ELSE IF Has(dd, "dnsRecords") THEN dd.dnsRecords
    ELSE <<>>

----------------------------------------------------------------------------
(* The wizard: requests, responses and handlers                            *)

NoRequest == [kind |-> "none"]

\* what a fetch of the page can settle with
OkResponses(bodies) == {[kind |-> "ok", body |-> b] : b \in bodies}
FailureResponses ==
    {[kind |-> "http_error", hasErrorField |-> b] : b \in BOOLEAN}
    \cup {[kind |-> "bad_json"], [kind |-> "network"]}

CreateResponses == OkResponses(CreatePayloads \cup {NoIdPayload}) \cup FailureResponses
RefreshResponses == OkResponses(CheckPayloads) \cup FailureResponses
Responses == CreateResponses \cup RefreshResponses

\* a catch block that sets no message
FailureMessageNone(resp, what) == NoError

\* the message the catch block hands to setError
FailureMessage(resp, what) ==
    CASE resp.kind = "http_error" ->
            IF resp.hasErrorField THEN "upstream error field"
            ELSE IF what = "create" THEN "Failed to create domain: statusText"
            ELSE "Failed to refresh domain: statusText"
      [] resp.kind = "bad_json" -> "Unexpected token"
      [] resp.kind = "network" -> "Failed to fetch"

\* the domains typed into the form
WizardDomains == {<<"a", ".", "a", "a">>, <<"a", "1", ".", "Z", "z">>,
                  <<"a", ".", "a">>, <<"-", "a", ".", "a", "a">>, <<>>}

\* StepAfterRefresh testing hasMxRecords before the status
StepAfterRefreshMxFirst(result, step) ==
    IF result.hasMxRecords THEN 3
    ELSE IF result.status = "verified" THEN LastStep
    ELSE step

\* the step refreshDomain leaves after a 200 response
StepAfterRefresh(result, step) ==
    IF result.status = "verified" THEN LastStep
    ELSE IF result.hasMxRecords THEN 3
    ELSE step

\* the step createDomain leaves after a 200 response
StepAfterCreate == 2

\* first load of the page: the mount effects run against whatever an
\* earlier session left in localStorage
Mount ==
    /\ ~mounted
    /\ LET m == MountResult(localStorage) IN
        /\ domainData' = m.domainData
        /\ currentStep' = m.currentStep
        /\ localStorage' = m.ls
    /\ mounted' = TRUE
    /\ UNCHANGED <<isLoading, error, isDnsConfigExpanded, inflight>>
    /\ lastEvent' = "mount"
    /\ UNCHANGED nonWizardVars

\* browser reload: component state back to its useState defaults, the
\* pending fetch abandoned, then the mount effects
Reload ==
    /\ mounted
    /\ LET m == MountResult(localStorage) IN
        /\ domainData' = m.domainData
        /\ currentStep' = m.currentStep
        /\ localStorage' = m.ls
    /\ isLoading' = FALSE
    /\ error' = NoError
    /\ isDnsConfigExpanded' = TRUE
    /\ inflight' = NoRequest
    /\ UNCHANGED mounted
    /\ lastEvent' = "reload"
    /\ UNCHANGED nonWizardVars

\* handleSubmit(createDomain) up to the await of fetch: the resolver lets
\* only accepted domains through; the form exists while no payload is held
\* and its button is disabled while loading
createDomain(d) ==
    /\ mounted
    /\ domainData = JNull
    /\ ~isLoading
    /\ DomainSchemaAccepts(d)
    /\ isLoading' = TRUE
    /\ error' = NoError
    /\ inflight' = [kind |-> "create", domain |-> d]
    /\ UNCHANGED <<mounted, domainData, currentStep, isDnsConfigExpanded, localStorage>>
    /\ lastEvent' = "submit"
    /\ UNCHANGED nonWizardVars

\* createDomain from the await to the end of finally, and the save effects
createDomainResponse(resp) ==
    /\ inflight.kind = "create"
    /\ IF resp.kind = "ok"
       THEN /\ domainData' = resp.body
            /\ currentStep' = StepAfterCreate
            /\ error' = error
            /\ localStorage' = RunSaveEffects(localStorage, domainData, resp.body, TRUE,
                                              currentStep, StepAfterCreate)
       ELSE /\ error' = FailureMessage(resp, "create")
            /\ UNCHANGED <<domainData, currentStep, localStorage>>
    /\ isLoading' = FALSE
    /\ inflight' = NoRequest
    /\ UNCHANGED <<mounted, isDnsConfigExpanded>>
    /\ lastEvent' = "createResponse"
    /\ UNCHANGED nonWizardVars

\* refreshDomain up to the await of fetch
refreshDomain ==
    /\ mounted
    /\ domainData # JNull
    /\ ~isLoading
    /\ Has(domainData, "id")
    /\ isLoading' = TRUE
    /\ error' = NoError
    /\ inflight' = [kind |-> "refresh", id |-> domainData.id]
    /\ UNCHANGED <<mounted, domainData, currentStep, isDnsConfigExpanded, localStorage>>
    /\ lastEvent' = "refresh"
    /\ UNCHANGED nonWizardVars

\* refreshDomain from the await to the end of finally, and the save effects
refreshDomainResponse(resp) ==
    /\ inflight.kind = "refresh"
    /\ IF resp.kind = "ok"
       THEN /\ domainData' = resp.body
            /\ currentStep' = StepAfterRefresh(resp.body, currentStep)
            /\ isDnsConfigExpanded' =
                    IF resp.body.status = "verified" THEN FALSE ELSE isDnsConfigExpanded
            /\ error' = error
            /\ localStorage' = RunSaveEffects(localStorage, domainData, resp.body, TRUE,
                                              currentStep, StepAfterRefresh(resp.body, currentStep))
       ELSE /\ error' = FailureMessage(resp, "refresh")
            /\ UNCHANGED <<domainData, currentStep, isDnsConfigExpanded, localStorage>>
    /\ isLoading' = FALSE
    /\ inflight' = NoRequest
    /\ UNCHANGED mounted
    /\ lastEvent' = "refreshResponse"
    /\ UNCHANGED nonWizardVars

\* clearSavedData ("Add New Domain", shown while a payload is held) and the
\* save effects of the render it causes
clearSavedData ==
    /\ mounted
    /\ domainData # JNull
    /\ domainData' = JNull
    /\ currentStep' = FirstStep
    /\ error' = NoError
    /\ isDnsConfigExpanded' = TRUE
    /\ localStorage' =
         RunSaveEffects(RemoveItem(RemoveItem(localStorage, DOMAIN_DATA_KEY), CURRENT_STEP_KEY),
                        domainData, JNull, FALSE, currentStep, FirstStep)
    /\ UNCHANGED <<mounted, isLoading, inflight>>
    /\ lastEvent' = "clear"
    /\ UNCHANGED nonWizardVars

\* the Collapse / Expand button of the DNS configuration card
ToggleDnsConfig ==
    /\ mounted
    /\ domainData # JNull
    /\ isDnsConfigExpanded' = ~isDnsConfigExpanded
    /\ UNCHANGED <<mounted, domainData, currentStep, isLoading, error, localStorage, inflight>>
    /\ lastEvent' = "toggle"
    /\ UNCHANGED nonWizardVars

----------------------------------------------------------------------------
(* Initial states                                                          *)

\* characters of a step entry found at first load
StepTextChars == {"1", "3", "4", "5", "x", " ", "-"}
InitStepTexts == SeqsUpTo(StepTextChars, MaxStepTextLen)

\* domain entries found at first load: texts the page wrote itself, the same
\* object with its keys in another order, null, and damaged texts
InitDomainTexts ==
    {Stringify(p) : p \in {[t |-> "object", id |-> "d1", status |-> "pending",
                            hasMxRecords |-> FALSE, dnsRecords |-> <<"TXT", "MX">>],
                           [t |-> "object", id |-> "d1", status |-> "verified",
                            hasMxRecords |-> TRUE, verificationCheck |-> [dnsRecords |-> <<"TXT", "MX">>]],
                           [t |-> "object", id |-> "d1", status |-> "pending",
                            hasMxRecords |-> TRUE, dnsRecords |-> <<"TXT">>]}}
    \cup {<<"{", "hasMxRecords", "false", "status", "pending", "id", "d1", "}">>,
          <<"null">>,
          <<>>,
          <<"{", "id", "d1", "status">>,
          <<"oops">>}

InitStorages ==
    {EmptyStorage}
    \cup {SetItem(EmptyStorage, DOMAIN_DATA_KEY, d) : d \in InitDomainTexts}
    \cup {SetItem(EmptyStorage, CURRENT_STEP_KEY, t) : t \in InitStepTexts}
    \cup {SetItem(SetItem(EmptyStorage, DOMAIN_DATA_KEY, d), CURRENT_STEP_KEY, t) :
            d \in InitDomainTexts, t \in InitStepTexts}

WizardInit ==
    /\ mounted = FALSE
    /\ domainData = JNull
    /\ currentStep = FirstStep
    /\ isLoading = FALSE
    /\ error = NoError
    /\ isDnsConfigExpanded = TRUE
    /\ inflight = NoRequest
    /\ lastEvent = "init"

ValidatorIdle ==
    /\ vInput = <<>>
    /\ vResult = "none"

ServerIdle ==
    /\ req = [endpoint |-> "none"]
    /\ pc = "idle"
    /\ responses = <<>>
    /\ effects = <<>>
    /\ thrown = "none"
    /\ background = "none"
    /\ express = 5

ReplayIdle ==
    /\ deliveries = <<>>
    /\ attempts = <<>>
    /\ upstreamKeys = {}
    /\ outbound = <<>>

\* removeForwardedContent has not run
NotCleaned == [done |-> FALSE]

StripIdle ==
    /\ html = <<>>
    /\ cleaned = NotCleaned

\* replyData === null
NoReplyData == [present |-> FALSE]

\* texts of the composer are token sequences; '' is the empty sequence
EmptyForm == [to |-> <<>>, cc |-> <<>>, bcc |-> <<>>, subject |-> <<>>, body |-> <<>>]

\* a mutation that has not been called, or whose last call was reset
IdleMutation == [status |-> "idle", error |-> "null"]

\* both cached views are up to date
FreshCache == [threads |-> "fresh", thread |-> "fresh"]

NotSubmitted == [present |-> FALSE]

ComposerIdle ==
    /\ composeDialogOpen = FALSE
    /\ replyData = NoReplyData
    /\ formData = EmptyForm
    /\ isHtmlMode = FALSE
    /\ sendEmailMutation = IdleMutation
    /\ replyEmailMutation = IdleMutation
    /\ mutationCalls = <<>>
    /\ queryCache = FreshCache
    /\ submitted = NotSubmitted
    /\ composerEvent = "init"

\* no fetch has been issued
NoResponse == [kind |-> "none"]

\* the promise of makeRequest is pending
NotSettled == [settled |-> FALSE]

\* no InboundClient has been constructed
NoInstance == [state |-> "none"]

ClientIdle ==
    /\ apiKeyEnv = ""
    /\ inboundClient = NoInstance
    /\ clientCall = "none"
    /\ fetches = <<>>
    /\ operations = 0
    /\ upstreamResponse = NoResponse
    /\ clientResult = NotSettled

\* the threads the upstream knows
ThreadIds == {"t1", "t2"}

\* a query nobody has observed yet: no data, no error, not fetching
NoData == [t |-> "undefined"]
NewQuery == [status |-> "pending", fetching |-> FALSE, data |-> NoData, error |-> "null"]

ViewerIdle ==
    /\ viewerMounted = FALSE
    /\ showUnreadsOnly = FALSE
    /\ selectedThreadId = "null"
    /\ threadsQueries = [unreadOnly \in BOOLEAN |-> NewQuery]
    /\ threadQueries = [threadId \in ThreadIds |-> NewQuery]
    /\ viewerFetches = <<>>

CopyIdle ==
    /\ copiedField = "null"
    /\ clipboardWrites = <<>>
    /\ timers = <<>>
    /\ copies = 0
    /\ indicatorCopy = 0

Init ==
    /\ WizardInit
    /\ localStorage \in InitStorages
    /\ ValidatorIdle
    /\ ServerIdle
    /\ ReplayIdle
    /\ StripIdle
    /\ ComposerIdle
    /\ ClientIdle
    /\ ViewerIdle
    /\ CopyIdle

Next ==
    \/ Mount
    \/ Reload
    \/ \E d \in WizardDomains : createDomain(d)
    \/ \E resp \in CreateResponses : createDomainResponse(resp)
    \/ refreshDomain
    \/ \E resp \in RefreshResponses : refreshDomainResponse(resp)
    \/ clearSavedData
    \/ ToggleDnsConfig

Spec == Init /\ [][Next]_vars

\* the wizard on a browser that has never stored anything for it
InitFirstVisit ==
    /\ WizardInit
    /\ localStorage = EmptyStorage
    /\ ValidatorIdle
    /\ ServerIdle
    /\ ReplayIdle
    /\ StripIdle
    /\ ComposerIdle
    /\ ClientIdle
    /\ ViewerIdle
    /\ CopyIdle

SpecFirstVisit == InitFirstVisit /\ [][Next]_vars

----------------------------------------------------------------------------
(* The validator as a function of its input                                *)

\* characters of the enumerated inputs: a letter, a digit, the hyphen, the
\* dot and a character outside the class
DomainAlphabet == {"a", "1", "-", ".", "_"}

Repeat(c, n) == [i \in 1..n |-> c]

\* inputs around the label length limit
LongDomains ==
    {Repeat("a", n) \o <<".", "a", "a">> : n \in {MaxLabelLen, MaxLabelLen + 1}}
    \cup {<<"a", ".">> \o Repeat("a", n) : n \in {MaxLabelLen, MaxLabelLen + 1}}

ValidatorInputs == SeqsUpTo(DomainAlphabet, MaxDomainLen) \cup LongDomains \cup WizardDomains

ValidatorInit ==
    /\ vInput \in ValidatorInputs
    /\ vResult = "none"

\* zodResolver(domainSchema) applied to the form value
Validate ==
    /\ vResult = "none"
    /\ vResult' = IF DomainSchemaAccepts(vInput) THEN "accept" ELSE "reject"
    /\ UNCHANGED vInput
    /\ UNCHANGED nonValidatorVars

InitValidator ==
    /\ WizardInit
    /\ localStorage = EmptyStorage
    /\ ValidatorInit
    /\ ServerIdle
    /\ ReplayIdle
    /\ StripIdle
    /\ ComposerIdle
    /\ ClientIdle
    /\ ViewerIdle
    /\ CopyIdle

NextValidator == Validate

SpecValidator == InitValidator /\ [][NextValidator]_vars

----------------------------------------------------------------------------
(* Claims about the wizard (checked under Spec)                            *)

WizardResponseEvents == {"createResponse", "refreshResponse"}

\* C1: once mounted, the step only moves forward; the only handler that
\* lowers it is start over, and it changes only when a submit or refresh
\* response is handled or on start over.
C1_StepOnlyMovesForward ==
    [][mounted =>
        /\ (currentStep' < currentStep => lastEvent' = "clear")
        /\ (currentStep' # currentStep => lastEvent' \in WizardResponseEvents \cup {"clear"})]_vars

\* C2: a reload with no request pending restores exactly the step and the
\* domain payload held before it.
C2_ReloadRestoresState ==
    [][(lastEvent' = "reload" /\ inflight = NoRequest) =>
        (currentStep' = currentStep /\ domainData' = domainData)]_vars

\* C2 witness: a reload has resumed the wizard mid-way with a payload.
C2_Witness ==
    /\ lastEvent = "reload"
    /\ currentStep = 3
    /\ domainData # JNull
    /\ Has(domainData, "verificationCheck")

\* C3: after start over the wizard is at step 1 without payload and neither
\* entry is present in localStorage.
C3_StartOverClearsEverything ==
    lastEvent = "clear" =>
        /\ currentStep = FirstStep
        /\ domainData = JNull
        /\ DOMAIN_DATA_KEY \notin DOMAIN localStorage
        /\ CURRENT_STEP_KEY \notin DOMAIN localStorage

\* the domain entry is present and is not valid JSON
DomainEntryCorrupted(ls) ==
    DOMAIN_DATA_KEY \in DOMAIN ls /\ ~Parse(ls[DOMAIN_DATA_KEY]).ok

\* the step entry is present and is not the text of an integer in 1..4
StepEntryCorrupted(ls) ==
    /\ CURRENT_STEP_KEY \in DOMAIN ls
    /\ ls[CURRENT_STEP_KEY] \notin {NumberToString(n) : n \in FirstStep..LastStep}

EntryDiscarded(old, new, key) == key \notin DOMAIN new \/ new[key] # old[key]

\* C4: a mount that finds either entry corrupted discards the corrupted
\* entries and starts at step 1 with no payload held.
C4_CorruptedStateStartsFresh ==
    [][(lastEvent' = "mount"
        /\ (DomainEntryCorrupted(localStorage) \/ StepEntryCorrupted(localStorage))) =>
        /\ currentStep' = FirstStep
        /\ domainData' = JNull
        /\ (DomainEntryCorrupted(localStorage) =>
                EntryDiscarded(localStorage, localStorage', DOMAIN_DATA_KEY))
        /\ (StepEntryCorrupted(localStorage) =>
                EntryDiscarded(localStorage, localStorage', CURRENT_STEP_KEY))]_vars

\* C5: a 200 refresh response that reports verified moves to step 4 and
\* collapses the DNS panel, from any step; otherwise one that reports
\* hasMxRecords moves to step 3.
C5_RefreshTransitionRule ==
    [][\A resp \in RefreshResponses :
        (refreshDomainResponse(resp) /\ resp.kind = "ok") =>
            /\ (resp.body.status = "verified" =>
                    currentStep' = LastStep /\ ~isDnsConfigExpanded')
            /\ (resp.body.status # "verified" /\ resp.body.hasMxRecords =>
                    currentStep' = 3)]_vars

\* C5 witness: a verified refresh response has been handled.
C5_Witness ==
    /\ lastEvent = "refreshResponse"
    /\ currentStep = LastStep
    /\ ~isDnsConfigExpanded
    /\ domainData # JNull
    /\ domainData.status = "verified"
    /\ domainData.hasMxRecords

\* the record list a create response carries
ResponseRecords(body) == IF Has(body, "dnsRecords") THEN body.dnsRecords ELSE <<>>

\* C6: a 200 create response handled at step 1 moves to step 2, stores the
\* returned payload and exposes exactly the response's record list.
C6_SubmitMovesToStepTwo ==
    [][\A resp \in CreateResponses :
        (createDomainResponse(resp) /\ resp.kind = "ok" /\ currentStep = FirstStep) =>
            /\ currentStep' = 2
            /\ domainData' = resp.body
            /\ getDnsRecords(domainData') = ResponseRecords(resp.body)]_vars

\* C6 witness: a create response with two records has been handled.
C6_Witness ==
    /\ lastEvent = "createResponse"
    /\ currentStep = 2
    /\ domainData # JNull
    /\ getDnsRecords(domainData) = <<"TXT", "MX">>
    /\ localStorage[CURRENT_STEP_KEY] = <<"2">>

----------------------------------------------------------------------------
(* Claims about the validator (checked under SpecValidator)                *)

LabelWellFormed(l) ==
    /\ Len(l) >= 1
    /\ Len(l) <= 63
    /\ \A i \in 1..Len(l) : l[i] \in LabelClass
    /\ l[1] # "-"
    /\ l[Len(l)] # "-"

AllIn(l, class) == \A i \in 1..Len(l) : l[i] \in class

\* label(.label)+ with well-formed labels and an alphabetic top-level label
\* of at least minTld characters
DomainWellFormed(d, minTld) ==
    LET parts == Split(d, ".") IN
    /\ Len(parts) >= 2
    /\ \A i \in 1..Len(parts) : LabelWellFormed(parts[i])
    /\ AllIn(parts[Len(parts)], Letters)
    /\ Len(parts[Len(parts)]) >= minTld

\* consecutive dots, a leading dot or a numeric top-level label
DomainBroken(d) ==
    \/ Includes(d, <<".", ".">>)
    \/ StartsWith(d, <<".">>)
    \/ LET parts == Split(d, ".") IN
         Len(parts[Len(parts)]) >= 1 /\ AllIn(parts[Len(parts)], DigitChars)

\* C7 as stated: every well-formed domain with an alphabetic top-level label
\* is accepted and every broken string is rejected.
C7_ValidatorAsClaimed ==
    vResult # "none" =>
        /\ (DomainWellFormed(vInput, 1) => vResult = "accept")
        /\ (DomainBroken(vInput) => vResult = "reject")

\* C7 amended: every well-formed domain whose alphabetic top-level label has
\* at least two letters is accepted; every broken string is rejected.
C7_ValidatorTwoLetterTld ==
    vResult # "none" =>
        /\ (DomainWellFormed(vInput, 2) => vResult = "accept")
        /\ (DomainBroken(vInput) => vResult = "reject")

\* C7 witness: a domain with a label of the maximal length was accepted.
C7_Witness ==
    /\ vResult = "accept"
    /\ Len(vInput) > MaxLabelLen
    /\ Len(Split(vInput, ".")[1]) = MaxLabelLen

----------------------------------------------------------------------------
(* Server endpoints: requests                                              *)

WebhookEndpoints == {"copymail", "pdf", "ai"}
ExpressEndpoints == {"copymail", "ai", "replytothis"}
ProxyEndpoints == {"domainsPost", "domainsGet", "emailsPost"}
Endpoints == WebhookEndpoints \cup {"replytothis"} \cup ProxyEndpoints

\* express majors a build can resolve: 4 leaves a rejected async handler
\* unanswered, 5 forwards the rejection to the error handlers
ExpressVersions == {4, 5}

\* parsed emails: well formed with either content flag, or with the nested
\* objects (cleanedContent, parsedData, from.addresses) missing
Emails ==
    {[id |-> "e1", malformed |-> FALSE, hasHtml |-> h, hasText |-> t] : h, t \in BOOLEAN}
    \cup {[id |-> "e1", malformed |-> TRUE]}

\* request bodies of the webhooks: no body, a body that is not JSON, a JSON
\* object without email, a JSON object with email
WebhookBodies ==
    {[kind |-> "none"], [kind |-> "invalid_json"], [kind |-> "object"]}
    \cup {[kind |-> "object", email |-> e] : e \in Emails}

EmailFields == {"from", "fromName", "to", "subject", "html", "text"}

\* request bodies of the proxy routes: the set of fields that are present
ProxyBodies(endpoint) ==
    CASE endpoint = "domainsPost" ->
            {[kind |-> "invalid_json"]}
            \cup {[kind |-> "object", fields |-> f] : f \in SUBSET {"domain"}}
      [] endpoint = "emailsPost" ->
            {[kind |-> "invalid_json"]}
            \cup {[kind |-> "object", fields |-> f] : f \in SUBSET EmailFields}
      [] endpoint = "domainsGet" -> {[kind |-> "none"]}

Requests ==
    {[endpoint |-> e, body |-> b] : e \in WebhookEndpoints \cup {"replytothis"}, b \in WebhookBodies}
    \cup UNION {{[endpoint |-> e, body |-> b, apiKey |-> k] : b \in ProxyBodies(e), k \in BOOLEAN} :
                e \in ProxyEndpoints}

HasEmail(body) == body.kind = "object" /\ Has(body, "email")

\* outcomes of an awaited outbound call
RenderOutcomes ==
    {[kind |-> "ok"], [kind |-> "network", message |-> "fetch failed"]}
    \cup {[kind |-> "http_error", message |-> m] :
            m \in {"Failed to generate PDF: Unauthorized", "Failed to generate PDF: Bad Gateway"}}
ReplyOutcomes ==
    {[kind |-> "ok"], [kind |-> "error", message |-> "reply rejected"],
     [kind |-> "throws", message |-> "fetch failed"]}
UpstreamOutcomes ==
    {[kind |-> "ok"], [kind |-> "bad_json"], [kind |-> "network"]}
    \cup {[kind |-> "http_error", status |-> st, hasErrorField |-> b] :
            st \in {401, 422}, b \in BOOLEAN}
WriteOutcomes ==
    {[kind |-> "ok"], [kind |-> "first_fails", message |-> "EACCES"],
     [kind |-> "second_fails", message |-> "ENOSPC"]}

TypeErrorMessage == "Cannot read properties of undefined"
SyntaxErrorMessage == "Unexpected token in JSON"

Respond(status, text) == Append(responses, [status |-> status, text |-> text])

\* a request arrives
Receive(r) ==
    /\ pc = "idle"
    /\ req' = r
    /\ pc' = "handler"
    /\ UNCHANGED <<responses, effects, thrown, background, express>>
    /\ UNCHANGED nonServerVars

\* express.json() rejects a body that is not JSON before the route runs:
\* copymail's error middleware answers 400, the ai server falls to the
\* default error handler, replytothis to its own error handler
BodyParserRejects ==
    /\ pc = "handler"
    /\ req.endpoint \in ExpressEndpoints
    /\ req.body.kind = "invalid_json"
    /\ responses' =
         CASE req.endpoint = "copymail" -> Respond(400, "Invalid JSON in request body")
           [] req.endpoint = "ai" -> Respond(400, "Bad Request")
           [] req.endpoint = "replytothis" -> Respond(500, SyntaxErrorMessage)
    /\ pc' = "done"
    /\ UNCHANGED <<req, effects, thrown, background, express>>
    /\ UNCHANGED nonServerVars

----------------------------------------------------------------------------
(* Server endpoints: handlers                                              *)

GenericErrorText == "Internal server error"

\* what express's default error handler writes: the status text in
\* production, the stack (with the message) otherwise
DefaultErrorPages(message) == {"Internal Server Error", message}

\* copymail: app.post('/api/inbound'), a synchronous handler inside
\* try/catch
CopymailHandle(w) ==
    /\ pc = "handler"
    /\ req.endpoint = "copymail"
    /\ req.body.kind # "invalid_json"
    /\ IF req.body.kind = "none"
       THEN \* express 5 leaves req.body undefined, express 4 sets {}
            /\ responses' = IF express >= 5 THEN Respond(400, "Request body is empty")
                            ELSE Respond(400, "Email data not found in request body")
            /\ UNCHANGED <<effects, thrown>>
       ELSE IF ~HasEmail(req.body)
       THEN /\ responses' = Respond(400, "Email data not found in request body")
            /\ UNCHANGED <<effects, thrown>>
       ELSE IF req.body.email.malformed
       THEN \* email.from?.addresses[0] with addresses missing
            /\ thrown' = TypeErrorMessage
            /\ responses' = Respond(500, GenericErrorText)
            /\ UNCHANGED effects
       ELSE CASE w.kind = "ok" ->
                    /\ effects' = effects \o <<"clean", "write_original", "write_cleaned">>
                    /\ responses' = Respond(200, "Inbound data received successfully")
                    /\ UNCHANGED thrown
              [] w.kind = "first_fails" ->
                    /\ effects' = effects \o <<"clean">>
                    /\ thrown' = w.message
                    /\ responses' = Respond(500, GenericErrorText)
              [] w.kind = "second_fails" ->
                    /\ effects' = effects \o <<"clean", "write_original">>
                    /\ thrown' = w.message
                    /\ responses' = Respond(500, GenericErrorText)
    /\ pc' = "done"
    /\ UNCHANGED <<req, background, express>>
    /\ UNCHANGED nonServerVars

\* the text the pdf handler's catch block puts in the 500 response
PdfCatchText(message) == message

\* htmlContentSource with the text branch taken whenever there is no HTML
htmlContentSourceTextDefault(email) ==
    IF email.hasHtml THEN "html" ELSE "text"

\* where the pdf handler takes htmlContent from: cleanedContent.hasHtml is
\* tested first, then cleanedContent.hasText
htmlContentSource(email) ==
    IF email.hasHtml THEN "html"
    ELSE IF email.hasText THEN "text"
    ELSE "none"

\* the steps with the render call issued before the content is prepared
PdfPrepareRenderFirst(source) ==
    <<"render", IF source = "html" THEN "strip" ELSE "wrap", "banner">>

\* the steps of the pdf handler from the content to the render call:
\* removeForwardedContent or wrapTextInHTML, addInboundBanner, then the
\* fetch of generatePDFFromHTML
PdfPrepare(source) ==
    <<IF source = "html" THEN "strip" ELSE "wrap", "banner", "render">>

\* pdf: app.post("/api/inbound") up to the await of the render call
PdfStart ==
    /\ pc = "handler"
    /\ req.endpoint = "pdf"
    /\ IF req.body.kind # "object"
       THEN \* c.req.json() rejects
            /\ thrown' = SyntaxErrorMessage
            /\ responses' = Respond(500, PdfCatchText(SyntaxErrorMessage))
            /\ pc' = "done"
            /\ UNCHANGED effects
       ELSE IF ~HasEmail(req.body) \/ req.body.email.malformed
       THEN \* payload.email.cleanedContent.hasHtml
            /\ thrown' = TypeErrorMessage
            /\ responses' = Respond(500, PdfCatchText(TypeErrorMessage))
            /\ pc' = "done"
            /\ UNCHANGED effects
       ELSE IF htmlContentSource(req.body.email) = "html"
       THEN /\ effects' = effects \o PdfPrepare("html")
            /\ pc' = "render"
            /\ UNCHANGED <<responses, thrown>>
       ELSE IF htmlContentSource(req.body.email) = "text"
       THEN /\ effects' = effects \o PdfPrepare("text")
            /\ pc' = "render"
            /\ UNCHANGED <<responses, thrown>>
       ELSE /\ responses' = Respond(400, "No content found in email")
            /\ pc' = "done"
            /\ UNCHANGED <<effects, thrown>>
    /\ UNCHANGED <<req, background, express>>
    /\ UNCHANGED nonServerVars

\* pdf: generatePDFFromHTML settles; on success the reply call is issued
PdfRenderDone(o) ==
    /\ pc = "render"
    /\ req.endpoint = "pdf"
    /\ IF o.kind = "ok"
       THEN /\ effects' = Append(effects, "reply")
            /\ pc' = "reply"
            /\ UNCHANGED <<responses, thrown>>
       ELSE /\ thrown' = o.message
            /\ responses' = Respond(500, PdfCatchText(o.message))
            /\ pc' = "done"
            /\ UNCHANGED effects
    /\ UNCHANGED <<req, background, express>>
    /\ UNCHANGED nonServerVars

\* pdf: inbound.reply settles
PdfReplyDone(o) ==
    /\ pc = "reply"
    /\ req.endpoint = "pdf"
    /\ CASE o.kind = "ok" ->
                /\ responses' = Append(responses, [status |-> 200, text |-> "success"])
                /\ UNCHANGED thrown
         [] o.kind = "error" ->
                /\ responses' = Respond(500, o.message)
                /\ UNCHANGED thrown
         [] o.kind = "throws" ->
                /\ thrown' = o.message
                /\ responses' = Respond(500, PdfCatchText(o.message))
    /\ pc' = "done"
    /\ UNCHANGED <<req, effects, background, express>>
    /\ UNCHANGED nonServerVars

\* ai: app.post("/api/inbound"), an async handler without try/catch
AiHandle(page) ==
    /\ pc = "handler"
    /\ req.endpoint = "ai"
    /\ req.body.kind # "invalid_json"
    /\ IF ~HasEmail(req.body)
       THEN \* destructuring req.body or reading email.from throws
            /\ thrown' = TypeErrorMessage
            /\ page \in DefaultErrorPages(TypeErrorMessage)
            /\ responses' = IF express >= 5 THEN Respond(500, page) ELSE responses
            /\ UNCHANGED background
       ELSE \* analyzeEmail runs up to its first await, then the 200 is sent
            /\ background' = IF req.body.email.malformed THEN "threw" ELSE "analyzing"
            /\ responses' = Append(responses, [status |-> 200, text |-> "ok"])
            /\ UNCHANGED thrown
    /\ pc' = "done"
    /\ UNCHANGED <<req, effects, express>>
    /\ UNCHANGED nonServerVars

\* ai: generateObject settles; on success the reply call is issued
AiAnalysisDone(ok) ==
    /\ req.endpoint = "ai"
    /\ background = "analyzing"
    /\ IF ok
       THEN /\ effects' = Append(effects, "reply")
            /\ background' = "replying"
       ELSE /\ background' = "threw"
            /\ UNCHANGED effects
    /\ UNCHANGED <<req, pc, responses, thrown, express>>
    /\ UNCHANGED nonServerVars

\* AiReplyDone as a handler that awaited the task would behave: a failed
\* reply is reported on the request
AiReplyDoneAnswers(o) ==
    /\ req.endpoint = "ai"
    /\ background = "replying"
    /\ background' = CASE o.kind = "ok" -> "ok"
                       [] o.kind = "error" -> "error"
                       [] o.kind = "throws" -> "threw"
    /\ responses' = IF o.kind = "ok" THEN responses ELSE Respond(500, o.message)
    /\ UNCHANGED <<req, pc, effects, thrown, express>>
    /\ UNCHANGED nonServerVars

\* ai: inbound.email.sent.reply settles
AiReplyDone(o) ==
    /\ req.endpoint = "ai"
    /\ background = "replying"
    /\ background' = CASE o.kind = "ok" -> "ok"
                       [] o.kind = "error" -> "error"
                       [] o.kind = "throws" -> "threw"
    /\ UNCHANGED <<req, pc, responses, effects, thrown, express>>
    /\ UNCHANGED nonServerVars

\* replytothis: app.post('/api/replytothis') up to the await of the reply
ReplyToThisHandle ==
    /\ pc = "handler"
    /\ req.endpoint = "replytothis"
    /\ req.body.kind # "invalid_json"
    /\ IF ~HasEmail(req.body)
       THEN \* isInboundWebhook(payload) is false
            /\ responses' = Respond(400, "Invalid webhook")
            /\ pc' = "done"
            /\ UNCHANGED <<effects, thrown>>
       ELSE IF req.body.email.malformed
       THEN \* email.from?.addresses[0] with addresses missing
            /\ thrown' = TypeErrorMessage
            /\ responses' = IF express >= 5 THEN Respond(500, TypeErrorMessage) ELSE responses
            /\ pc' = "done"
            /\ UNCHANGED effects
       ELSE /\ effects' = Append(effects, "reply")
            /\ pc' = "reply"
            /\ UNCHANGED <<responses, thrown>>
    /\ UNCHANGED <<req, background, express>>
    /\ UNCHANGED nonServerVars

\* replytothis: inbound.email.sent.reply settles
ReplyToThisReplyDone(o) ==
    /\ pc = "reply"
    /\ req.endpoint = "replytothis"
    /\ CASE o.kind = "ok" ->
                /\ responses' = Append(responses, [status |-> 200, text |-> "Email replied successfully"])
                /\ UNCHANGED thrown
         [] o.kind = "error" ->
                /\ responses' = Respond(500, o.message)
                /\ UNCHANGED thrown
         [] o.kind = "throws" ->
                /\ thrown' = o.message
                /\ responses' = IF express >= 5 THEN Respond(500, o.message) ELSE responses
    /\ pc' = "done"
    /\ UNCHANGED <<req, effects, background, express>>
    /\ UNCHANGED nonServerVars

\* the fields a proxy route requires in the body
MissingRequired(r) ==
    CASE r.endpoint = "domainsPost" -> "domain" \notin r.body.fields
      [] r.endpoint = "emailsPost" ->
            \/ ~({"from", "to", "subject"} \subseteq r.body.fields)
            \/ {"html", "text"} \cap r.body.fields = {}
      [] r.endpoint = "domainsGet" -> FALSE

\* the Next.js routes (POST /api/domains, GET /api/domains/[id],
\* POST /api/emails) up to the await of the upstream fetch
ProxyHandle ==
    /\ pc = "handler"
    /\ req.endpoint \in ProxyEndpoints
    /\ IF req.body.kind = "invalid_json"
       THEN \* request.json() rejects inside try
            /\ thrown' = SyntaxErrorMessage
            /\ responses' = Respond(500, GenericErrorText)
            /\ pc' = "done"
            /\ UNCHANGED effects
       ELSE IF MissingRequired(req)
       THEN /\ responses' = Respond(400, "Missing required fields")
            /\ pc' = "done"
            /\ UNCHANGED <<effects, thrown>>
       ELSE IF ~req.apiKey
       THEN /\ responses' = Respond(500, "Server configuration error")
            /\ pc' = "done"
            /\ UNCHANGED <<effects, thrown>>
       ELSE IF req.endpoint = "emailsPost" /\ "fromName" \notin req.body.fields
       THEN \* fromName.charAt(0) on undefined
            /\ thrown' = TypeErrorMessage
            /\ responses' = Respond(500, GenericErrorText)
            /\ pc' = "done"
            /\ UNCHANGED effects
       ELSE /\ effects' = Append(effects, "upstream")
            /\ pc' = "upstream"
            /\ UNCHANGED <<responses, thrown>>
    /\ UNCHANGED <<req, background, express>>
    /\ UNCHANGED nonServerVars

\* the Next.js routes: the upstream fetch settles
ProxyUpstreamDone(o) ==
    /\ pc = "upstream"
    /\ req.endpoint \in ProxyEndpoints
    /\ CASE o.kind = "ok" ->
                /\ responses' = Append(responses, [status |-> 200, text |-> "upstream data"])
                /\ UNCHANGED thrown
         [] o.kind = "http_error" ->
                /\ responses' = Respond(o.status, IF o.hasErrorField THEN "upstream error field"
                                                  ELSE "Failed")
                /\ UNCHANGED thrown
         [] o.kind \in {"bad_json", "network"} ->
                /\ thrown' = IF o.kind = "network" THEN "fetch failed" ELSE SyntaxErrorMessage
                /\ responses' = Respond(500, GenericErrorText)
    /\ pc' = "done"
    /\ UNCHANGED <<req, effects, background, express>>
    /\ UNCHANGED nonServerVars

InitServer ==
    /\ WizardInit
    /\ localStorage = EmptyStorage
    /\ ValidatorIdle
    /\ req = [endpoint |-> "none"]
    /\ pc = "idle"
    /\ responses = <<>>
    /\ effects = <<>>
    /\ thrown = "none"
    /\ background = "none"
    /\ express \in ExpressVersions
    /\ ReplayIdle
    /\ StripIdle
    /\ ComposerIdle
    /\ ClientIdle
    /\ ViewerIdle
    /\ CopyIdle

NextServer ==
    \/ \E r \in Requests : Receive(r)
    \/ BodyParserRejects
    \/ \E w \in WriteOutcomes : CopymailHandle(w)
    \/ PdfStart
    \/ \E o \in RenderOutcomes : PdfRenderDone(o)
    \/ \E o \in ReplyOutcomes : PdfReplyDone(o)
    \/ \E page \in DefaultErrorPages(TypeErrorMessage) : AiHandle(page)
    \/ \E ok \in BOOLEAN : AiAnalysisDone(ok)
    \/ \E o \in ReplyOutcomes : AiReplyDone(o)
    \/ ReplyToThisHandle
    \/ \E o \in ReplyOutcomes : ReplyToThisReplyDone(o)
    \/ ProxyHandle
    \/ \E o \in UpstreamOutcomes : ProxyUpstreamDone(o)

SpecServer == InitServer /\ [][NextServer]_vars

----------------------------------------------------------------------------
(* Claims about the server endpoints (checked under SpecServer)            *)

\* C8: a webhook receiver handed a JSON body without an email object answers
\* 400 and performs no transformation, file write, render call or reply.
C8_MissingEmailAnswers400 ==
    (pc = "done" /\ req.endpoint \in WebhookEndpoints
        /\ req.body.kind = "object" /\ ~Has(req.body, "email")) =>
        /\ Len(responses) = 1
        /\ responses[1].status = 400
        /\ effects = <<>>

\* C9: when processing an email throws in a webhook receiver, the response is
\* a 500 whose text is the fixed generic message, whatever was thrown.
C9_ProcessingErrorIsGeneric ==
    (pc = "done" /\ req.endpoint \in WebhookEndpoints
        /\ HasEmail(req.body) /\ thrown # "none") =>
        /\ Len(responses) = 1
        /\ responses[1].status = 500
        /\ responses[1].text = GenericErrorText

\* C10: once a handler has finished, the request has exactly one response,
\* and it is a 500 if an exception was raised in the handler.
C10_ExactlyOneResponse ==
    pc = "done" =>
        /\ Len(responses) = 1
        /\ (thrown # "none" => responses[1].status = 500)



\* a request to the pdf receiver whose email has neither HTML nor text
PdfNoContent ==
    /\ req.endpoint = "pdf"
    /\ HasEmail(req.body)
    /\ ~req.body.email.malformed
    /\ ~req.body.email.hasHtml
    /\ ~req.body.email.hasText

\* C13: for an email with neither HTML nor text content the pdf receiver
\* answers 400 and calls neither the render service nor the reply API.
C13_NoContentAnswers400 ==
    PdfNoContent =>
        /\ "render" \notin Range(effects)
        /\ "reply" \notin Range(effects)
        /\ pc # "render"
        /\ pc # "reply"
        /\ (pc = "done" => Len(responses) = 1 /\ responses[1].status = 400)

\* C13 witness: such a request has been answered.
C13_Witness ==
    /\ PdfNoContent
    /\ pc = "done"
    /\ responses = <<[status |-> 400, text |-> "No content found in email"]>>
    /\ effects = <<>>

\* the acknowledgement of the AI-analysis webhook
AiAck == [status |-> 200, text |-> "ok"]

\* C12: the AI-analysis webhook answers 200 without waiting for the
\* background task, and the answer is that one 200 while the task is still
\* running as well as after it succeeded, returned an error or threw.
C12_AckIsFireAndForget ==
    /\ (pc = "done" /\ req.endpoint = "ai" /\ HasEmail(req.body)) => responses = <<AiAck>>
    /\ (req.endpoint = "ai" /\ background # "none") => responses = <<AiAck>>

\* C12 witness: the request was acknowledged, the analysis then succeeded and
\* the reply call threw.
C12_Witness ==
    /\ pc = "done"
    /\ req.endpoint = "ai"
    /\ effects = <<"reply">>
    /\ background = "threw"
    /\ responses = <<AiAck>>

----------------------------------------------------------------------------
(* The AI-analysis webhook under redelivery: several deliveries of the     *)
(* webhook, each starting its own analyzeEmail task; the tasks interleave  *)
(* freely.  The upstream reply API deduplicates sends by idempotency key.  *)

\* most deliveries received in one behaviour
MaxDeliveries == 3

\* the emails the webhook is delivered with: two messages that carry a
\* Message-ID and two whose messageId is missing from the payload
ReplayEmails ==
    {[id |-> "e1", messageId |-> "m1"], [id |-> "e2", messageId |-> "m2"],
     [id |-> "e3"], [id |-> "e4"]}

\* a value in a string concatenation: undefined reads "undefined"
ConcatText(obj, key) == IF Has(obj, key) THEN obj[key] ELSE "undefined"

\* the source message id a delivery carries
SourceMessageId(email) == ConcatText(email, "messageId")

NoKey == [present |-> FALSE]

\* analyzeEmail without the idempotencyKey option
idempotencyKeyOmitted(email) == NoKey

\* idempotencyKey: "reply-analysis-agent-" + email.messageId
idempotencyKey(email) ==
    [present |-> TRUE, text |-> <<"reply-analysis-agent-", ConcatText(email, "messageId")>>]

\* app.post("/api/inbound"): waitUntil(analyzeEmail(email)), then the 200
AiDeliver(email) ==
    /\ Len(deliveries) < MaxDeliveries
    /\ deliveries' = Append(deliveries, [email |-> email, phase |-> "analyzing"])
    /\ UNCHANGED <<attempts, upstreamKeys, outbound>>
    /\ UNCHANGED nonReplayVars

\* analyzeEmail: generateObject settles; on success the reply call is issued
AiGenerateDone(i, ok) ==
    /\ i \in DOMAIN deliveries
    /\ deliveries[i].phase = "analyzing"
    /\ IF ok
       THEN /\ deliveries' = [deliveries EXCEPT ![i].phase = "replying"]
            /\ attempts' = Append(attempts, [emailId |-> deliveries[i].email.id,
                                             source |-> SourceMessageId(deliveries[i].email),
                                             key |-> idempotencyKey(deliveries[i].email)])
       ELSE /\ deliveries' = [deliveries EXCEPT ![i].phase = "threw"]
            /\ UNCHANGED attempts
    /\ UNCHANGED <<upstreamKeys, outbound>>
    /\ UNCHANGED nonReplayVars

\* inbound.email.sent.reply settles: the call either never reaches the
\* upstream (the fetch fails) or is handled there, where a key seen before
\* produces no second reply
AiReplySettled(i, reached) ==
    /\ i \in DOMAIN deliveries
    /\ deliveries[i].phase = "replying"
    /\ LET email == deliveries[i].email
           key == idempotencyKey(email)
       IN IF ~reached
          THEN /\ deliveries' = [deliveries EXCEPT ![i].phase = "threw"]
               /\ UNCHANGED <<upstreamKeys, outbound>>
          ELSE IF key.present /\ key \in upstreamKeys
          THEN /\ deliveries' = [deliveries EXCEPT ![i].phase = "deduplicated"]
               /\ UNCHANGED <<upstreamKeys, outbound>>
          ELSE /\ deliveries' = [deliveries EXCEPT ![i].phase = "sent"]
               /\ upstreamKeys' = IF key.present THEN upstreamKeys \cup {key} ELSE upstreamKeys
               /\ outbound' = Append(outbound, [emailId |-> email.id,
                                                source |-> SourceMessageId(email)])
    /\ UNCHANGED attempts
    /\ UNCHANGED nonReplayVars

InitReplay ==
    /\ WizardInit
    /\ localStorage = EmptyStorage
    /\ ValidatorIdle
    /\ ServerIdle
    /\ ReplayIdle
    /\ StripIdle
    /\ ComposerIdle
    /\ ClientIdle
    /\ ViewerIdle
    /\ CopyIdle

NextReplay ==
    \/ \E email \in ReplayEmails : AiDeliver(email)
    \/ \E i \in 1..MaxDeliveries, ok \in BOOLEAN : AiGenerateDone(i, ok)
    \/ \E i \in 1..MaxDeliveries, reached \in BOOLEAN : AiReplySettled(i, reached)

SpecReplay == InitReplay /\ [][NextReplay]_vars

\* the replies sent out for one source message id
RepliesFor(source) == {n \in DOMAIN outbound : outbound[n].source = source}

\* C11: whatever the number and interleaving of deliveries carrying the same
\* source message id, at most one reply is sent out for it, and all reply
\* attempts for it carry the same idempotency key.
C11_AtMostOneReply ==
    /\ \A email \in ReplayEmails : Cardinality(RepliesFor(SourceMessageId(email))) <= 1
    /\ \A a, b \in DOMAIN attempts :
          attempts[a].source = attempts[b].source =>
              /\ attempts[a].key.present
              /\ attempts[a].key = attempts[b].key

\* C11 witness: two deliveries of the same message both had their reply call
\* handled by the upstream, one sent and one deduplicated.
C11_Witness ==
    \E i, j \in DOMAIN deliveries :
        /\ deliveries[i].email = deliveries[j].email
        /\ deliveries[i].phase = "sent"
        /\ deliveries[j].phase = "deduplicated"
        /\ Cardinality(RepliesFor(SourceMessageId(deliveries[i].email))) = 1

----------------------------------------------------------------------------
(* Forward stripping: removeForwardedContent as a function of its input.   *)
(* An HTML text is a sequence of tokens: opening and closing tags and runs *)
(* of text.  The text runs of the enumerated inputs stand for text that    *)
(* holds no white space and matches none of the textual patterns           *)
(* ("Forwarded message", "From: ... Subject:", "Original Message",         *)
(* "On ... wrote:"), so those replacements, the white space clean-up and   *)
(* trim() leave them as they are.                                          *)

\* longest enumerated HTML text, in tokens
MaxHtmlLen == 6

GmailQuoteDiv == "<div class=\"gmail_quote\">"
PlainDiv == "<div>"
CloseDiv == "</div>"
QuotedText == "quoted"
SiblingText == "sibling"

HtmlTokens == {GmailQuoteDiv, PlainDiv, CloseDiv, QuotedText, SiblingText}

\* <div[^>]*> : any opening div tag
IsDivOpen(tok) == tok \in {GmailQuoteDiv, PlainDiv}

\* <div[^>]*class="[^"]*word[^"]*"[^>]*> : an opening div tag whose class
\* attribute contains the word
IsDivOpenWithClass(tok, word) ==
    tok = GmailQuoteDiv /\ word \in {"gmail_quote", "quote"}

\* position of the first token equal to tok after position i, 0 if none
RECURSIVE IndexAfter(_, _, _)
IndexAfter(toks, i, tok) ==
    IF i >= Len(toks) THEN 0
    ELSE IF toks[i + 1] = tok THEN i + 1
    ELSE IndexAfter(toks, i + 1, tok)

\* cleaned.replace(/<div[^>]*class="[^"]*word[^"]*"[^>]*>[\s\S]*?<\/div>/gi, ''):
\* left to right, each match runs from an opening div with the class to the
\* first closing div tag after it
RECURSIVE ReplaceClassDivs(_, _, _, _)
ReplaceClassDivs(toks, i, acc, word) ==
    IF i > Len(toks) THEN acc
    ELSE LET close == IndexAfter(toks, i, CloseDiv) IN
         IF IsDivOpenWithClass(toks[i], word) /\ close # 0
         THEN ReplaceClassDivs(toks, close + 1, acc, word)
         ELSE ReplaceClassDivs(toks, i + 1, Append(acc, toks[i]), word)

\* cleaned.replace(/<div[^>]*>\s*<\/div>/gi, ''): one pass over the text
RECURSIVE ReplaceEmptyDivs(_, _, _)
ReplaceEmptyDivs(toks, i, acc) ==
    IF i > Len(toks) THEN acc
    ELSE IF IsDivOpen(toks[i]) /\ i < Len(toks) /\ toks[i + 1] = CloseDiv
    THEN ReplaceEmptyDivs(toks, i + 2, acc)
    ELSE ReplaceEmptyDivs(toks, i + 1, Append(acc, toks[i]))

\* the class words of the div replacements, in the order of the source
ClassWordsBeforeBlockquote ==
    <<"gmail_quote", "gmail_attr", "yahoo_quoted", "OutlookMessageHeader", "moz-cite-prefix">>
ClassWordsAfterBlockquote == <<"quote", "forward">>

RECURSIVE ReplaceAllClassDivs(_, _, _)
ReplaceAllClassDivs(toks, words, k) ==
    IF k > Len(words) THEN toks
    ELSE ReplaceAllClassDivs(ReplaceClassDivs(toks, 1, <<>>, words[k]), words, k + 1)

\* removeForwardedContent(html); the enumerated texts hold no blockquote
\* and no p element
removeForwardedContent(toks) ==
    LET afterClients == ReplaceAllClassDivs(toks, ClassWordsBeforeBlockquote, 1)
        afterGeneric == ReplaceAllClassDivs(afterClients, ClassWordsAfterBlockquote, 1)
    IN ReplaceEmptyDivs(afterGeneric, 1, <<>>)

\* the pdf handler applies removeForwardedContent to cleanedContent.html
StripForwarded ==
    /\ cleaned = NotCleaned
    /\ cleaned' = [done |-> TRUE, html |-> removeForwardedContent(html)]
    /\ UNCHANGED html
    /\ UNCHANGED nonStripVars

InitStrip ==
    /\ WizardInit
    /\ localStorage = EmptyStorage
    /\ ValidatorIdle
    /\ ServerIdle
    /\ ReplayIdle
    /\ html \in SeqsUpTo(HtmlTokens, MaxHtmlLen)
    /\ cleaned = NotCleaned
    /\ ComposerIdle
    /\ ClientIdle
    /\ ViewerIdle
    /\ CopyIdle

NextStrip == StripForwarded

SpecStrip == InitStrip /\ [][NextStrip]_vars

----------------------------------------------------------------------------
(* Claims about forward stripping (checked under SpecStrip)                *)

\* position of the tag closing the div opened before position i, 0 if none
RECURSIVE MatchingClose(_, _, _)
MatchingClose(toks, i, depth) ==
    IF i > Len(toks) THEN 0
    ELSE IF IsDivOpen(toks[i]) THEN MatchingClose(toks, i + 1, depth + 1)
    ELSE IF toks[i] = CloseDiv
    THEN IF depth = 1 THEN i ELSE MatchingClose(toks, i + 1, depth - 1)
    ELSE MatchingClose(toks, i + 1, depth)

\* the text is a gmail_quote div, whose subtree holds quoted text and plain
\* divs, followed by sibling text
QuoteThenSibling(toks) ==
    /\ Len(toks) >= 3
    /\ toks[1] = GmailQuoteDiv
    /\ LET close == MatchingClose(toks, 2, 1) IN
         /\ close # 0
         /\ close < Len(toks)
         /\ \A i \in 2..(close - 1) : toks[i] \in {PlainDiv, CloseDiv, QuotedText}
         /\ \A i \in (close + 1)..Len(toks) : toks[i] = SiblingText

SiblingOf(toks) == SubSeq(toks, MatchingClose(toks, 2, 1) + 1, Len(toks))

\* C14: when a div with the Gmail quote class, whatever its subtree, is
\* followed by sibling content, the result holds nothing of the div and holds
\* the sibling content as it was.
C14_QuoteSubtreeRemoved ==
    (cleaned.done /\ QuoteThenSibling(html)) => cleaned.html = SiblingOf(html)

----------------------------------------------------------------------------
(* The mail composer: Page (page.tsx) owns composeDialogOpen and replyData *)
(* and renders one ComposeDialog, which stays mounted while the dialog is  *)
(* closed.  State updates of one handler are batched; the reset effect of  *)
(* ComposeDialog then runs if mode, replyData or open changed.             *)

\* most mutationFn calls in flight the model follows
MaxInFlight == 2

\* the inbound messages of the displayed thread (thread-detail.tsx shows
\* Reply and Reply All on inbound messages)
InboundMessages ==
    {[id |-> "msg1", from |-> <<"alice@example.com">>, subject |-> <<"Quarterly Update">>],
     [id |-> "msg2", from |-> <<"bob@example.com">>, subject |-> <<"Re: ", "Quarterly Update">>]}

\* what the user types into a field
RecipientTexts == {<<>>, <<"carol@example.com">>}
CopyTexts == {<<>>, <<"dave@example.com">>}
FreeTexts == {<<>>, <<"a">>, <<"b">>}
FieldTexts(field) ==
    CASE field = "to" -> RecipientTexts
      [] field \in {"cc", "bcc"} -> CopyTexts
      [] field \in {"subject", "body"} -> FreeTexts
FormFields == {"to", "cc", "bcc", "subject", "body"}

\* errors a mutationFn can reject with (InboundClient.makeRequest)
MutationErrors == {"Unknown error", "HTTP 500: Internal Server Error"}

\* mode={replyData ? 'reply' : 'compose'}
Mode(rd) == IF rd.present THEN "reply" ELSE "compose"

\* replyData.originalSender || ''
OriginalSenderOrEmpty(rd) == IF Has(rd, "originalSender") THEN rd.originalSender ELSE <<>>

\* replyData.originalSubject?.startsWith('Re: ') ? replyData.originalSubject
\*   : `Re: ${replyData.originalSubject || 'No Subject'}`
PrefilledSubject(rd) ==
    IF Has(rd, "originalSubject") /\ StartsWith(rd.originalSubject, <<"Re: ">>)
    THEN rd.originalSubject
    ELSE <<"Re: ">> \o (IF Has(rd, "originalSubject") /\ rd.originalSubject # <<>>
                        THEN rd.originalSubject
                        ELSE <<"No Subject">>)

\* the form the reset effect sets
ResetForm(rd) ==
    IF Mode(rd) = "reply"
    THEN [to |-> OriginalSenderOrEmpty(rd), cc |-> <<>>, bcc |-> <<>>,
          subject |-> PrefilledSubject(rd), body |-> <<>>]
    ELSE EmptyForm

\* useEffect(..., [mode, replyData, open]): the form after a render in which
\* the handler left the form at fd
AfterResetEffect(fd, oldRd, newRd, oldOpen, newOpen) ==
    IF oldRd # newRd \/ oldOpen # newOpen THEN ResetForm(newRd) ELSE fd

\* isLoading = sendEmailMutation.isPending || replyEmailMutation.isPending
ComposerIsLoading ==
    sendEmailMutation.status = "pending" \/ replyEmailMutation.status = "pending"

\* error = sendEmailMutation.error || replyEmailMutation.error
ComposerError ==
    IF sendEmailMutation.error # "null" THEN sendEmailMutation.error
    ELSE replyEmailMutation.error

\* the submit button without the isLoading test
SubmitDisabledIgnoresLoading(loading, fd) ==
    fd.to = <<>> \/ fd.subject = <<>> \/ fd.body = <<>>

\* disabled={isLoading || !formData.to || !formData.subject || !formData.body}
SubmitDisabled(loading, fd) ==
    loading \/ fd.to = <<>> \/ fd.subject = <<>> \/ fd.body = <<>>

\* the field's input is rendered and enabled
FieldEditable(field, mode) ==
    CASE field = "to" -> mode = "compose"
      [] field \in {"cc", "bcc"} -> mode = "compose"
      [] field \in {"subject", "body"} -> TRUE

\* process.env.NEXT_PUBLIC_INBOUND_EMAIL || 'user@example.com'
FromEmail == "user@example.com"

NoField == [k \in {} |-> <<>>]

\* ...(value && { key: value })
SpreadIfSet(key, value) == IF value # <<>> THEN (key :> value) ELSE NoField

\* [isHtmlMode ? 'html' : 'text']: formData.body
BodyEntry(htmlMode, fd) == (IF htmlMode THEN "html" ELSE "text") :> fd.body

\* replyPayload of handleSubmit
ReplyPayload(fd, htmlMode, rd) ==
    [from |-> FromEmail, subject |-> fd.subject, replyAll |-> rd.replyAll]
    @@ SpreadIfSet("to", fd.to) @@ BodyEntry(htmlMode, fd)

\* emailPayload of handleSubmit
SendPayload(fd, htmlMode) ==
    [from |-> FromEmail, to |-> fd.to, subject |-> fd.subject]
    @@ BodyEntry(htmlMode, fd) @@ SpreadIfSet("cc", fd.cc) @@ SpreadIfSet("bcc", fd.bcc)

PendingMutation == [status |-> "pending", error |-> "null"]

\* the history of the last submit lasts until the request has settled and
\* the user has acted again
SubmittedKept == IF ComposerIsLoading THEN submitted ELSE NotSubmitted

\* Page.handleComposeClick (the sidebar is covered while the dialog is open)
handleComposeClick ==
    /\ ~composeDialogOpen
    /\ replyData' = NoReplyData
    /\ composeDialogOpen' = TRUE
    /\ formData' = AfterResetEffect(formData, replyData, NoReplyData, composeDialogOpen, TRUE)
    /\ submitted' = SubmittedKept
    /\ composerEvent' = "handleComposeClick"
    /\ UNCHANGED <<isHtmlMode, sendEmailMutation, replyEmailMutation, mutationCalls, queryCache>>
    /\ UNCHANGED nonComposerVars

\* Page.handleReply(emailId, replyAll), called by Reply and Reply All
handleReply(emailId, replyAll) ==
    /\ ~composeDialogOpen
    /\ LET rd == [present |-> TRUE, emailId |-> emailId, replyAll |-> replyAll] IN
         /\ replyData' = rd
         /\ formData' = AfterResetEffect(formData, replyData, rd, composeDialogOpen, TRUE)
    /\ composeDialogOpen' = TRUE
    /\ submitted' = SubmittedKept
    /\ composerEvent' = "handleReply"
    /\ UNCHANGED <<isHtmlMode, sendEmailMutation, replyEmailMutation, mutationCalls, queryCache>>
    /\ UNCHANGED nonComposerVars

\* onChange of an input: setFormData(prev => ({ ...prev, [field]: value }))
SetField(field, value) ==
    /\ composeDialogOpen
    /\ FieldEditable(field, Mode(replyData))
    /\ value # formData[field]
    /\ formData' = [formData EXCEPT ![field] = value]
    /\ submitted' = SubmittedKept
    /\ composerEvent' = "setField"
    /\ UNCHANGED <<composeDialogOpen, replyData, isHtmlMode, sendEmailMutation,
                   replyEmailMutation, mutationCalls, queryCache>>
    /\ UNCHANGED nonComposerVars

\* onCheckedChange={setIsHtmlMode}
ToggleHtmlMode ==
    /\ composeDialogOpen
    /\ isHtmlMode' = ~isHtmlMode
    /\ submitted' = SubmittedKept
    /\ composerEvent' = "toggleHtmlMode"
    /\ UNCHANGED <<composeDialogOpen, replyData, formData, sendEmailMutation,
                   replyEmailMutation, mutationCalls, queryCache>>
    /\ UNCHANGED nonComposerVars

\* handleSubmit, reached through the submit button
handleSubmit ==
    /\ composeDialogOpen
    /\ ~SubmitDisabled(ComposerIsLoading, formData)
    /\ Len(mutationCalls) < MaxInFlight
    /\ IF Mode(replyData) = "reply"
       THEN /\ mutationCalls' = Append(mutationCalls,
                    [kind |-> "reply", emailId |-> replyData.emailId,
                     payload |-> ReplyPayload(formData, isHtmlMode, replyData)])
            /\ replyEmailMutation' = PendingMutation
            /\ UNCHANGED sendEmailMutation
       ELSE /\ mutationCalls' = Append(mutationCalls,
                    [kind |-> "send", payload |-> SendPayload(formData, isHtmlMode)])
            /\ sendEmailMutation' = PendingMutation
            /\ UNCHANGED replyEmailMutation
    /\ submitted' = [present |-> TRUE, formData |-> formData, isHtmlMode |-> isHtmlMode]
    /\ composerEvent' = "handleSubmit"
    /\ UNCHANGED <<composeDialogOpen, replyData, formData, isHtmlMode, queryCache>>
    /\ UNCHANGED nonComposerVars

RemoveAt(s, i) == SubSeq(s, 1, i - 1) \o SubSeq(s, i + 1, Len(s))

\* queryClient.invalidateQueries of the onSuccess callbacks
InvalidatedOnSuccess(kind, rd, cache) ==
    IF kind = "reply" /\ rd.present
    THEN [threads |-> "invalidated", thread |-> "invalidated"]
    ELSE [cache EXCEPT !.threads = "invalidated"]

\* a mutationFn call resolves: onSuccess of its mutation
MutationSuccess(i) ==
    /\ i \in DOMAIN mutationCalls
    /\ LET call == mutationCalls[i] IN
         /\ IF call.kind = "send"
            THEN /\ sendEmailMutation' = [status |-> "success", error |-> "null"]
                 /\ UNCHANGED replyEmailMutation
            ELSE /\ replyEmailMutation' = [status |-> "success", error |-> "null"]
                 /\ UNCHANGED sendEmailMutation
         /\ queryCache' = InvalidatedOnSuccess(call.kind, replyData, queryCache)
    /\ mutationCalls' = RemoveAt(mutationCalls, i)
    /\ composeDialogOpen' = FALSE
    /\ formData' = AfterResetEffect(EmptyForm, replyData, replyData, composeDialogOpen, FALSE)
    /\ composerEvent' = "mutationSuccess"
    /\ UNCHANGED <<replyData, isHtmlMode, submitted>>
    /\ UNCHANGED nonComposerVars

\* onError with the form reset as in onSuccess
FormAfterErrorReset(fd) == EmptyForm

\* onError only logs: the form is what it was
FormAfterError(fd) == fd

\* a mutationFn call rejects: onError of its mutation
MutationError(i, message) ==
    /\ i \in DOMAIN mutationCalls
    /\ IF mutationCalls[i].kind = "send"
       THEN /\ sendEmailMutation' = [status |-> "error", error |-> message]
            /\ UNCHANGED replyEmailMutation
       ELSE /\ replyEmailMutation' = [status |-> "error", error |-> message]
            /\ UNCHANGED sendEmailMutation
    /\ mutationCalls' = RemoveAt(mutationCalls, i)
    /\ formData' = FormAfterError(formData)
    /\ composerEvent' = "mutationError"
    /\ UNCHANGED <<composeDialogOpen, replyData, isHtmlMode, queryCache, submitted>>
    /\ UNCHANGED nonComposerVars

\* the Cancel button: onOpenChange(false), disabled while loading
Cancel ==
    /\ composeDialogOpen
    /\ ~ComposerIsLoading
    /\ composeDialogOpen' = FALSE
    /\ formData' = AfterResetEffect(formData, replyData, replyData, composeDialogOpen, FALSE)
    /\ submitted' = SubmittedKept
    /\ composerEvent' = "cancel"
    /\ UNCHANGED <<replyData, isHtmlMode, sendEmailMutation, replyEmailMutation,
                   mutationCalls, queryCache>>
    /\ UNCHANGED nonComposerVars

\* <Dialog open={open} onOpenChange={onOpenChange}>: the dialog asks to be
\* closed (Escape, a click outside)
DialogDismiss ==
    /\ composeDialogOpen
    /\ composeDialogOpen' = FALSE
    /\ formData' = AfterResetEffect(formData, replyData, replyData, composeDialogOpen, FALSE)
    /\ submitted' = SubmittedKept
    /\ composerEvent' = "dismiss"
    /\ UNCHANGED <<replyData, isHtmlMode, sendEmailMutation, replyEmailMutation,
                   mutationCalls, queryCache>>
    /\ UNCHANGED nonComposerVars

\* an invalidated query is fetched again
RefetchQuery(key) ==
    /\ queryCache[key] = "invalidated"
    /\ queryCache' = [queryCache EXCEPT ![key] = "fresh"]
    /\ submitted' = SubmittedKept
    /\ composerEvent' = "refetch"
    /\ UNCHANGED <<composeDialogOpen, replyData, formData, isHtmlMode, sendEmailMutation,
                   replyEmailMutation, mutationCalls>>
    /\ UNCHANGED nonComposerVars

InitComposer ==
    /\ WizardInit
    /\ localStorage = EmptyStorage
    /\ ValidatorIdle
    /\ ServerIdle
    /\ ReplayIdle
    /\ StripIdle
    /\ ComposerIdle
    /\ ClientIdle
    /\ ViewerIdle
    /\ CopyIdle

NextComposer ==
    \/ handleComposeClick
    \/ \E m \in InboundMessages, replyAll \in BOOLEAN : handleReply(m.id, replyAll)
    \/ \E field \in FormFields : \E value \in FieldTexts(field) : SetField(field, value)
    \/ ToggleHtmlMode
    \/ handleSubmit
    \/ \E i \in 1..MaxInFlight : MutationSuccess(i)
    \/ \E i \in 1..MaxInFlight, message \in MutationErrors : MutationError(i, message)
    \/ Cancel
    \/ DialogDismiss
    \/ \E key \in {"threads", "thread"} : RefetchQuery(key)

SpecComposer == InitComposer /\ [][NextComposer]_vars

----------------------------------------------------------------------------
(* Claims about the composer (checked under SpecComposer)                  *)

MessageWithId(id) == CHOOSE m \in InboundMessages : m.id = id

\* C15: while the composer is open in reply mode, opened through Reply or
\* Reply All, the recipient field is the sender of the message replied to.
C15_ReplyRecipientIsSender ==
    (composeDialogOpen /\ Mode(replyData) = "reply") =>
        formData.to = MessageWithId(replyData.emailId).from

\* "Re: " in front of the subject unless it is there already
WithReplyPrefix(subject) ==
    IF StartsWith(subject, <<"Re: ">>) THEN subject ELSE <<"Re: ">> \o subject

\* C16: when the composer has just been opened in reply mode, the subject
\* field is the replied-to message's subject with "Re: " in front, or that
\* subject unchanged when it starts with "Re: " already.
C16_ReplySubjectPrefixed ==
    composerEvent = "handleReply" =>
        formData.subject = WithReplyPrefix(MessageWithId(replyData.emailId).subject)

\* the text of a payload's body, whichever format carries it
PayloadBody(payload) == IF Has(payload, "html") THEN payload.html ELSE payload.text

\* C17: the submit button is disabled while a request is in flight, at most
\* one send or reply request is in flight, and every request issued carries
\* a non-empty recipient, subject and body.
C17_SubmissionGated ==
    /\ Len(mutationCalls) <= 1
    /\ mutationCalls # <<>> => SubmitDisabled(ComposerIsLoading, formData)
    /\ \A i \in DOMAIN mutationCalls :
          LET payload == mutationCalls[i].payload IN
            /\ Has(payload, "to") /\ payload.to # <<>>
            /\ payload.subject # <<>>
            /\ PayloadBody(payload) # <<>>

\* C17 witness: a request is in flight while the dialog is open with all
\* three required fields filled in.
C17_Witness ==
    /\ Len(mutationCalls) = 1
    /\ composeDialogOpen
    /\ formData.to # <<>>
    /\ formData.subject # <<>>
    /\ formData.body # <<>>

\* C18: after a successful submission both cached views are invalidated, the
\* dialog is closed and every form field is empty.
C18_SuccessInvalidatesAndResets ==
    composerEvent = "mutationSuccess" =>
        /\ queryCache.threads = "invalidated"
        /\ queryCache.thread = "invalidated"
        /\ ~composeDialogOpen
        /\ formData = EmptyForm

\* C19 as claimed: after a failed submission the error is shown, the dialog
\* is open, and the fields and the toggle are what they were at submit time.
C19_FailureKeepsSubmittedInput ==
    composerEvent = "mutationError" =>
        /\ ComposerError # "null"
        /\ composeDialogOpen
        /\ submitted.present
        /\ formData = submitted.formData
        /\ isHtmlMode = submitted.isHtmlMode

\* C19 amended: the failure of a submission sets the error message and
\* changes neither the open state of the dialog nor any field nor the
\* toggle.
C19_FailureChangesNoInput ==
    [][composerEvent' = "mutationError" =>
        /\ ComposerError' # "null"
        /\ composeDialogOpen' = composeDialogOpen
        /\ formData' = formData
        /\ isHtmlMode' = isHtmlMode]_vars

\* C19 witness: a submission has failed with the dialog open; the body has
\* been edited since the submit and is still there.
C19_Witness ==
    /\ composerEvent = "mutationError"
    /\ composeDialogOpen
    /\ ComposerError # "null"
    /\ submitted.present
    /\ formData.body # <<>>
    /\ formData.body # submitted.formData.body

----------------------------------------------------------------------------
(* The gateway client: InboundClient.makeRequest as a function of what the *)
(* upstream answers.  Messages are token sequences.                        *)

\* the operations of InboundClient, all of which go through makeRequest
ClientOperations ==
    {"getThreads", "getThread", "performThreadAction", "sendEmail", "replyToEmail"}

\* status codes and status texts of the enumerated responses; an HTTP/2
\* response has an empty status text
StatusTexts(status) ==
    CASE status = 200 -> {"OK", ""}
      [] status = 201 -> {"Created", ""}
      [] status = 401 -> {"Unauthorized", ""}
      [] status = 404 -> {"Not Found", ""}
      [] status = 500 -> {"Internal Server Error", ""}
      [] status = 502 -> {"Bad Gateway", ""}
StatusCodes == {200, 201, 401, 404, 500, 502}

\* JSON values of an error field
JString(text) == [t |-> "string", v |-> text]
JObject == [t |-> "object"]
ErrorFieldValues == {JNull, JString(""), JString("Domain not found"), JObject}

\* response bodies: text that is not JSON, the JSON value null, a JSON
\* object without or with an error field
ResponseBodies ==
    {[kind |-> "not_json"], [kind |-> "null"], [kind |-> "object"]}
    \cup {[kind |-> "object", error |-> e] : e \in ErrorFieldValues}

UpstreamResponses ==
    {[kind |-> "network"]}
    \cup {[kind |-> "http", status |-> st, statusText |-> tx, body |-> b] :
            st \in StatusCodes, tx \in UNION {StatusTexts(c) : c \in StatusCodes}, b \in ResponseBodies}

WellFormedResponse(r) == r.kind = "http" => r.statusText \in StatusTexts(r.status)

\* response.ok
ResponseOk(r) == r.status >= 200 /\ r.status <= 299

\* a value in a boolean position
Truthy(value) ==
    CASE value.t = "null" -> FALSE
      [] value.t = "string" -> value.v # ""
      [] value.t = "object" -> TRUE

\* new Error(value).message
MessageOf(value) ==
    CASE value.t = "string" -> <<value.v>>
      [] value.t = "object" -> <<"[object Object]">>
      [] value.t = "null" -> <<"null">>

\* `HTTP ${response.status}: ${response.statusText}`
StatusLine(r) == <<"HTTP ">> \o NumberToString(r.status) \o <<": ", r.statusText>>

\* response.json().catch(() => ({ error: 'Unknown error' }))
ErrorBody(r) ==
    IF r.body.kind = "not_json" THEN [kind |-> "object", error |-> JString("Unknown error")]
    ELSE r.body

NullErrorMessage == <<"Cannot read properties of null (reading 'error')">>
JsonParseMessage == <<"Unexpected token in JSON">>
FetchFailedMessage == <<"fetch failed">>

\* the message with the status line in every case
RejectionMessageStatusOnly(r) == StatusLine(r)

\* the message makeRequest throws with for a response that is not ok
RejectionMessage(r) ==
    LET errorBody == ErrorBody(r) IN
    IF errorBody.kind = "null" THEN NullErrorMessage
    ELSE IF Has(errorBody, "error") /\ Truthy(errorBody.error) THEN MessageOf(errorBody.error)
    ELSE StatusLine(r)

Rejected(message) == [settled |-> TRUE, ok |-> FALSE, message |-> message]
Resolved(body) == [settled |-> TRUE, ok |-> TRUE, data |-> body]

\* the keys a caller or the environment can supply; '' stands for an
\* omitted argument and for an unset environment variable alike (both falsy)
ApiKeys == {"", "sk_key"}

\* a constructor that keeps whatever key it is given
InboundClientConstructorLenient(apiKey, env) ==
    [state |-> "instance", apiKey |-> IF apiKey # "" THEN apiKey ELSE env]

\* constructor(apiKey?): this.apiKey = apiKey || API_KEY, throws without one
InboundClientConstructor(apiKey, env) ==
    LET thisApiKey == IF apiKey # "" THEN apiKey ELSE env IN
    IF thisApiKey = "" THEN [state |-> "threw"]
    ELSE [state |-> "instance", apiKey |-> thisApiKey]

\* 'Authorization': `Bearer ${this.apiKey}`
Authorization(apiKey) == <<"Bearer ", apiKey>>

\* new InboundClient(apiKey)
NewInboundClient(apiKey) ==
    /\ inboundClient = NoInstance
    /\ inboundClient' = InboundClientConstructor(apiKey, apiKeyEnv)
    /\ UNCHANGED <<apiKeyEnv, clientCall, fetches, operations, upstreamResponse, clientResult>>
    /\ UNCHANGED nonClientVars

\* an operation of the client calls makeRequest, which issues the fetch and
\* awaits it; the next operation is called once this one has settled
ClientCall(op) ==
    /\ inboundClient.state = "instance"
    /\ clientCall = "none" \/ clientResult.settled
    /\ operations < MaxClientCalls
    /\ clientCall' = op
    /\ operations' = operations + 1
    /\ fetches' = Append(fetches, [op |-> op,
                                   authorization |-> Authorization(inboundClient.apiKey)])
    /\ clientResult' = NotSettled
    /\ UNCHANGED <<apiKeyEnv, inboundClient, upstreamResponse>>
    /\ UNCHANGED nonClientVars

\* makeRequest from the settling of the fetch on
makeRequest ==
    /\ clientCall # "none"
    /\ clientResult = NotSettled
    /\ clientResult' =
         IF upstreamResponse.kind = "network" THEN Rejected(FetchFailedMessage)
         ELSE IF ~ResponseOk(upstreamResponse) THEN Rejected(RejectionMessage(upstreamResponse))
         ELSE IF upstreamResponse.body.kind = "not_json" THEN Rejected(JsonParseMessage)
         ELSE Resolved(upstreamResponse.body)
    /\ UNCHANGED <<apiKeyEnv, inboundClient, clientCall, fetches, operations, upstreamResponse>>
    /\ UNCHANGED nonClientVars

InitClient ==
    /\ WizardInit
    /\ localStorage = EmptyStorage
    /\ ValidatorIdle
    /\ ServerIdle
    /\ ReplayIdle
    /\ StripIdle
    /\ ComposerIdle
    /\ apiKeyEnv \in ApiKeys
    /\ inboundClient = NoInstance
    /\ clientCall = "none"
    /\ fetches = <<>>
    /\ operations = 0
    /\ ViewerIdle
    /\ CopyIdle
    /\ upstreamResponse \in {r \in UpstreamResponses : WellFormedResponse(r)}
    /\ clientResult = NotSettled

NextClient ==
    \/ \E apiKey \in ApiKeys : NewInboundClient(apiKey)
    \/ \E op \in ClientOperations : ClientCall(op)
    \/ makeRequest

SpecClient == InitClient /\ [][NextClient]_vars

----------------------------------------------------------------------------
(* Claims about the gateway client (checked under SpecClient)              *)

NonOkResponse ==
    upstreamResponse.kind = "http" /\ ~ResponseOk(upstreamResponse)

\* C20 as claimed: for a response that is not 2xx the request fails, with
\* the body's error field as message when the field is present, and with the
\* HTTP status line when the body has no error field or is not JSON.
C20_ErrorFieldElseStatusLine ==
    (clientResult.settled /\ NonOkResponse /\ upstreamResponse.body.kind # "null") =>
        /\ ~clientResult.ok
        /\ LET body == upstreamResponse.body IN
             IF body.kind = "object" /\ Has(body, "error") /\ body.error.t = "string"
                    /\ body.error.v # ""
             THEN clientResult.message = <<body.error.v>>
             ELSE IF body.kind = "not_json" \/ (body.kind = "object" /\ ~Has(body, "error"))
             THEN clientResult.message = StatusLine(upstreamResponse)
             ELSE TRUE

\* C20 amended: for a response that is not 2xx whose body is a JSON object
\* or is not JSON, the request fails; the message is the error field when it
\* is a non-empty string, "Unknown error" when the body is not JSON, and the
\* HTTP status line when the object has no error field or an empty or null
\* one.
C20_ErrorFieldElseFallback ==
    (clientResult.settled /\ NonOkResponse /\ upstreamResponse.body.kind # "null") =>
        /\ ~clientResult.ok
        /\ LET body == upstreamResponse.body IN
             IF body.kind = "not_json" THEN clientResult.message = <<"Unknown error">>
             ELSE IF ~Has(body, "error") THEN clientResult.message = StatusLine(upstreamResponse)
             ELSE CASE body.error.t = "string" ->
                          clientResult.message =
                              IF body.error.v # "" THEN <<body.error.v>>
                              ELSE StatusLine(upstreamResponse)
                    [] body.error.t = "null" ->
                          clientResult.message = StatusLine(upstreamResponse)
                    [] body.error.t = "object" -> TRUE

\* C20 witness: a 502 whose body is not JSON was turned into "Unknown error".
C20_Witness ==
    /\ clientResult.settled
    /\ upstreamResponse.kind = "http"
    /\ upstreamResponse.status = 502
    /\ upstreamResponse.body.kind = "not_json"
    /\ ~clientResult.ok
    /\ clientResult.message = <<"Unknown error">>

\* C21: an InboundClient instance always holds a key (construction without
\* one, from the argument or the environment, throws); every fetch carries a
\* bearer Authorization header with that key; every operation called has
\* issued exactly one fetch, whether it succeeded or failed.
C21_KeyedClientOneFetch ==
    /\ inboundClient.state = "instance" => inboundClient.apiKey # ""
    /\ \A i \in DOMAIN fetches :
          /\ inboundClient.state = "instance"
          /\ fetches[i].authorization = <<"Bearer ", inboundClient.apiKey>>
    /\ Len(fetches) = operations

\* C21 witness: two operations were called on a keyed client against an
\* upstream that fails, and the second one has been rejected too.
C21_Witness ==
    /\ inboundClient.state = "instance"
    /\ operations = 2
    /\ Len(fetches) = 2
    /\ clientResult.settled
    /\ ~clientResult.ok

----------------------------------------------------------------------------
(* The mail viewer: the thread list (ThreadsList) and the detail pane      *)
(* (ThreadDetail), each a useQuery over the gateway client.  A query is    *)
(* kept per key; only the query of the current key is observed.            *)

\* what the upstream can return: a list with 0..1 threads, a thread with
\* 0..1 messages
ItemCounts == {0, 1}
ViewerErrors == {"fetch failed", "Unauthorized"}

\* getThreads(params): the URLSearchParams it builds, as name/value pairs
GetThreadsQuery(params) ==
    (IF params.limit # 0 THEN <<<<"limit", NumberToString(params.limit)>>>> ELSE <<>>)
    \o (IF params.search # "" THEN <<<<"search", params.search>>>> ELSE <<>>)
    \o (IF params.unreadOnly THEN <<<<"unread_only", "true">>>> ELSE <<>>)

\* queryFn of ThreadsList: getThreads({ limit: 50, unreadOnly, search: searchQuery });
\* AppSidebar passes no searchQuery
ThreadsRequest(unreadOnly) ==
    [view |-> "threads", unreadOnly |-> unreadOnly, path |-> <<"/threads">>,
     query |-> GetThreadsQuery([limit |-> 50, search |-> "", unreadOnly |-> unreadOnly])]

\* queryFn of ThreadDetail: getThread(threadId)
ThreadRequest(threadId) ==
    [view |-> "thread", threadId |-> threadId, path |-> <<"/threads/", threadId>>, query |-> <<>>]

\* useQuery's isLoading: no data yet and the first fetch is under way
QueryIsLoading(q) == q.status = "pending" /\ q.fetching

\* the text of the empty list, whatever the filter
EmptyMessageGeneric(unreadOnly) == "No threads found"

\* unreadOnly ? 'No unread threads' : 'No threads found'
EmptyMessage(unreadOnly) == IF unreadOnly THEN "No unread threads" ELSE "No threads found"

\* what ThreadsList renders; retry tells whether the view has a button
\* that calls refetch()
ThreadsListView(q, unreadOnly) ==
    IF QueryIsLoading(q) THEN [kind |-> "ThreadsListSkeleton", retry |-> FALSE]
    ELSE IF q.error # "null"
    THEN [kind |-> "ThreadsListError", message |-> q.error, retry |-> TRUE]
    ELSE IF q.data = NoData \/ q.data.items = 0
    THEN [kind |-> "empty", message |-> EmptyMessage(unreadOnly), retry |-> FALSE]
    ELSE [kind |-> "threads", items |-> q.data.items, retry |-> FALSE]

\* what ThreadDetail renders
ThreadDetailView(threadId, q) ==
    IF threadId = "null" THEN [kind |-> "select", retry |-> FALSE]
    ELSE IF QueryIsLoading(q) THEN [kind |-> "ThreadDetailSkeleton", retry |-> FALSE]
    ELSE IF q.error # "null"
    THEN [kind |-> "ThreadDetailError", message |-> q.error, retry |-> TRUE]
    ELSE IF q.data = NoData THEN [kind |-> "not found", retry |-> FALSE]
    ELSE [kind |-> "thread", items |-> q.data.items, retry |-> FALSE]

CurrentThreadsQuery == threadsQueries[showUnreadsOnly]
CurrentThreadQuery ==
    IF selectedThreadId = "null" THEN NewQuery ELSE threadQueries[selectedThreadId]
CurrentListView == ThreadsListView(CurrentThreadsQuery, showUnreadsOnly)
CurrentDetailView == ThreadDetailView(selectedThreadId, CurrentThreadQuery)

\* a query that gets an observer fetches when it has no data and is idle
ObserveQuery(q) == IF q.status = "pending" /\ ~q.fetching THEN [q EXCEPT !.fetching = TRUE] ELSE q
FetchesIfObserved(q, request) == IF q.status = "pending" /\ ~q.fetching THEN <<request>> ELSE <<>>

CanFetch == Len(viewerFetches) < MaxViewerFetches

\* the page mounts: the list query of the initial filter starts; the detail
\* query is disabled (no thread selected)
ViewerMount ==
    /\ ~viewerMounted
    /\ viewerMounted' = TRUE
    /\ threadsQueries' = [threadsQueries EXCEPT ![showUnreadsOnly] = ObserveQuery(@)]
    /\ viewerFetches' = viewerFetches \o
           FetchesIfObserved(threadsQueries[showUnreadsOnly], ThreadsRequest(showUnreadsOnly))
    /\ UNCHANGED <<showUnreadsOnly, selectedThreadId, threadQueries>>
    /\ UNCHANGED nonViewerVars

\* the Unreads switch: the list now observes the query of the other key
setShowUnreadsOnly(checked) ==
    /\ viewerMounted
    /\ checked # showUnreadsOnly
    /\ CanFetch
    /\ showUnreadsOnly' = checked
    /\ threadsQueries' = [threadsQueries EXCEPT ![checked] = ObserveQuery(@)]
    /\ viewerFetches' = viewerFetches \o
           FetchesIfObserved(threadsQueries[checked], ThreadsRequest(checked))
    /\ UNCHANGED <<viewerMounted, selectedThreadId, threadQueries>>
    /\ UNCHANGED nonViewerVars

\* a click on a thread of the populated list
handleThreadSelect(threadId) ==
    /\ viewerMounted
    /\ CurrentListView.kind = "threads"
    /\ threadId # selectedThreadId
    /\ CanFetch
    /\ selectedThreadId' = threadId
    /\ threadQueries' = [threadQueries EXCEPT ![threadId] = ObserveQuery(@)]
    /\ viewerFetches' = viewerFetches \o
           FetchesIfObserved(threadQueries[threadId], ThreadRequest(threadId))
    /\ UNCHANGED <<viewerMounted, showUnreadsOnly, threadsQueries>>
    /\ UNCHANGED nonViewerVars

\* refetch() of the list: the "Try again" button of ThreadsListError
ThreadsListRetry ==
    /\ viewerMounted
    /\ CurrentListView.retry
    /\ ~CurrentThreadsQuery.fetching
    /\ CanFetch
    /\ threadsQueries' = [threadsQueries EXCEPT ![showUnreadsOnly].fetching = TRUE]
    /\ viewerFetches' = Append(viewerFetches, ThreadsRequest(showUnreadsOnly))
    /\ UNCHANGED <<viewerMounted, showUnreadsOnly, selectedThreadId, threadQueries>>
    /\ UNCHANGED nonViewerVars

\* refetch() of the detail: the "Try again" button of ThreadDetailError
ThreadDetailRetry ==
    /\ viewerMounted
    /\ CurrentDetailView.retry
    /\ ~CurrentThreadQuery.fetching
    /\ CanFetch
    /\ threadQueries' = [threadQueries EXCEPT ![selectedThreadId].fetching = TRUE]
    /\ viewerFetches' = Append(viewerFetches, ThreadRequest(selectedThreadId))
    /\ UNCHANGED <<viewerMounted, showUnreadsOnly, selectedThreadId, threadsQueries>>
    /\ UNCHANGED nonViewerVars

\* refetchInterval / staleTime: the observed list query refetches in the
\* background
ThreadsRefetchInterval ==
    /\ viewerMounted
    /\ CurrentThreadsQuery.status # "pending"
    /\ ~CurrentThreadsQuery.fetching
    /\ CanFetch
    /\ threadsQueries' = [threadsQueries EXCEPT ![showUnreadsOnly].fetching = TRUE]
    /\ viewerFetches' = Append(viewerFetches, ThreadsRequest(showUnreadsOnly))
    /\ UNCHANGED <<viewerMounted, showUnreadsOnly, selectedThreadId, threadQueries>>
    /\ UNCHANGED nonViewerVars

\* the same for the observed detail query
ThreadRefetchInterval ==
    /\ viewerMounted
    /\ selectedThreadId # "null"
    /\ CurrentThreadQuery.status # "pending"
    /\ ~CurrentThreadQuery.fetching
    /\ CanFetch
    /\ threadQueries' = [threadQueries EXCEPT ![selectedThreadId].fetching = TRUE]
    /\ viewerFetches' = Append(viewerFetches, ThreadRequest(selectedThreadId))
    /\ UNCHANGED <<viewerMounted, showUnreadsOnly, selectedThreadId, threadsQueries>>
    /\ UNCHANGED nonViewerVars

\* a query after its fetch resolved with data / rejected with an error
QuerySucceeded(q, items) ==
    [status |-> "success", fetching |-> FALSE, data |-> [t |-> "data", items |-> items],
     error |-> "null"]
QueryFailed(q, message) ==
    [status |-> "error", fetching |-> FALSE, data |-> q.data, error |-> message]

\* the fetch of a list query settles
ThreadsFetchSettled(unreadOnly, ok, count, message) ==
    /\ threadsQueries[unreadOnly].fetching
    /\ threadsQueries' = [threadsQueries EXCEPT ![unreadOnly] =
                             IF ok THEN QuerySucceeded(@, count) ELSE QueryFailed(@, message)]
    /\ UNCHANGED <<viewerMounted, showUnreadsOnly, selectedThreadId, threadQueries, viewerFetches>>
    /\ UNCHANGED nonViewerVars

\* the fetch of a detail query settles
ThreadFetchSettled(threadId, ok, count, message) ==
    /\ threadQueries[threadId].fetching
    /\ threadQueries' = [threadQueries EXCEPT ![threadId] =
                            IF ok THEN QuerySucceeded(@, count) ELSE QueryFailed(@, message)]
    /\ UNCHANGED <<viewerMounted, showUnreadsOnly, selectedThreadId, threadsQueries, viewerFetches>>
    /\ UNCHANGED nonViewerVars

InitViewer ==
    /\ WizardInit
    /\ localStorage = EmptyStorage
    /\ ValidatorIdle
    /\ ServerIdle
    /\ ReplayIdle
    /\ StripIdle
    /\ ComposerIdle
    /\ ClientIdle
    /\ ViewerIdle
    /\ CopyIdle

NextViewer ==
    \/ ViewerMount
    \/ \E checked \in BOOLEAN : setShowUnreadsOnly(checked)
    \/ \E threadId \in ThreadIds : handleThreadSelect(threadId)
    \/ ThreadsListRetry
    \/ ThreadDetailRetry
    \/ ThreadsRefetchInterval
    \/ ThreadRefetchInterval
    \/ \E unreadOnly \in BOOLEAN, ok \in BOOLEAN, count \in ItemCounts, message \in ViewerErrors :
          ThreadsFetchSettled(unreadOnly, ok, count, message)
    \/ \E threadId \in ThreadIds, ok \in BOOLEAN, count \in ItemCounts, message \in ViewerErrors :
          ThreadFetchSettled(threadId, ok, count, message)

SpecViewer == InitViewer /\ [][NextViewer]_vars

----------------------------------------------------------------------------
(* Claims about the mail viewer (checked under SpecViewer)                 *)

\* the observed list query has succeeded with zero threads
ZeroThreads ==
    /\ viewerMounted
    /\ CurrentThreadsQuery.status = "success"
    /\ CurrentThreadsQuery.data.items = 0

\* the observed detail query has succeeded with zero messages
ZeroMessages ==
    /\ viewerMounted
    /\ selectedThreadId # "null"
    /\ CurrentThreadQuery.status = "success"
    /\ CurrentThreadQuery.data.items = 0

\* the kinds of the views of a list / a thread with one item
PopulatedListKind == ThreadsListView(QuerySucceeded(NewQuery, 1), FALSE).kind
PopulatedDetailKind == ThreadDetailView("t1", QuerySucceeded(NewQuery, 1)).kind

\* C22: the views for zero threads, for zero messages in the selected
\* thread and for a fetch error differ from one another and from the
\* populated view, and each of them has a retry button that refetches.
C22_EmptyAndErrorViewsOfferRetry ==
    /\ ZeroThreads =>
          /\ CurrentListView.kind \notin {PopulatedListKind, "ThreadsListError"}
          /\ CurrentListView.retry
    /\ ZeroMessages =>
          /\ CurrentDetailView.kind \notin {PopulatedDetailKind, "ThreadDetailError"}
          /\ CurrentDetailView.retry
    /\ (viewerMounted /\ CurrentThreadsQuery.status = "error") =>
          /\ CurrentListView.kind # PopulatedListKind
          /\ CurrentListView.retry
    /\ (viewerMounted /\ selectedThreadId # "null" /\ CurrentThreadQuery.status = "error") =>
          /\ CurrentDetailView.kind # PopulatedDetailKind
          /\ CurrentDetailView.retry

\* C23: a list query that succeeded with zero threads shows "No unread
\* threads" when the Unreads filter is on and "No threads found" when it is
\* off; a list request carries unread_only exactly when it was issued for
\* the filter being on.
C23_EmptyMessageFollowsFilter ==
    /\ ZeroThreads =>
          /\ CurrentListView.kind = "empty"
          /\ showUnreadsOnly => CurrentListView.message = "No unread threads"
          /\ ~showUnreadsOnly => CurrentListView.message = "No threads found"
    /\ \A i \in DOMAIN viewerFetches :
          viewerFetches[i].view = "threads" =>
              (<<"unread_only", "true">> \in Range(viewerFetches[i].query)
                  <=> viewerFetches[i].unreadOnly)

\* C23 witness: with the filter on, the list request carried unread_only
\* and came back with zero threads.
C23_Witness ==
    /\ ZeroThreads
    /\ showUnreadsOnly
    /\ CurrentListView.message = "No unread threads"
    /\ \E i \in DOMAIN viewerFetches :
          /\ viewerFetches[i].view = "threads"
          /\ viewerFetches[i].unreadOnly
          /\ <<"unread_only", "true">> \in Range(viewerFetches[i].query)

----------------------------------------------------------------------------
(* Claims about the wizard's requests (checked under SpecFirstVisit and    *)
(* SpecWizardLive)                                                         *)

\* C24: start over leaves the wizard at step 1 with no payload held or
\* persisted, and a refresh response that arrives right after start over
\* (its request was issued before) changes neither the step, the payload
\* nor the persisted entries.
C24_StartOverIgnoresLateRefresh ==
    [][/\ lastEvent' = "clear" =>
            /\ currentStep' = FirstStep
            /\ domainData' = JNull
            /\ DOMAIN_DATA_KEY \notin DOMAIN localStorage'
       /\ (lastEvent = "clear" /\ lastEvent' = "refreshResponse") =>
            /\ currentStep' = currentStep
            /\ domainData' = domainData
            /\ localStorage' = localStorage]_vars

\* C25: the step is 1 exactly when no payload is held, 4 only with a
\* verified payload and 3 only with a payload that reports hasMxRecords.
C25_StepMatchesPayload ==
    mounted =>
        /\ currentStep = FirstStep <=> domainData = JNull
        /\ currentStep = LastStep => (domainData # JNull /\ domainData.status = "verified")
        /\ currentStep = 3 => (domainData # JNull /\ domainData.hasMxRecords)

\* a request has failed: the step is the continuation of createDomain or of
\* refreshDomain for a response that is not a 200 with a JSON body
RequestFailed ==
    \/ \E resp \in FailureResponses : createDomainResponse(resp)
    \/ \E resp \in FailureResponses : refreshDomainResponse(resp)

\* the wizard with every fetch settling sooner or later
SpecWizardLive ==
    /\ InitFirstVisit
    /\ [][Next]_vars
    /\ WF_vars(\E resp \in CreateResponses : createDomainResponse(resp))
    /\ WF_vars(\E resp \in RefreshResponses : refreshDomainResponse(resp))

\* C26: a failed create or refresh request leaves the step, the payload and
\* both persisted entries as they were, sets an error message and clears
\* the loading flag; the loading flag is eventually false after every
\* request.
C26_FailureLeavesProgress ==
    /\ [][RequestFailed =>
            /\ currentStep' = currentStep
            /\ domainData' = domainData
            /\ localStorage' = localStorage
            /\ error' # NoError
            /\ ~isLoading']_vars
    /\ (isLoading ~> ~isLoading)

\* C26 witness: a refresh at step 2 has failed; the payload is still held
\* and persisted, the error is shown and the wizard is not loading.
C26_Witness ==
    /\ lastEvent = "refreshResponse"
    /\ error # NoError
    /\ ~isLoading
    /\ currentStep = StepAfterCreate
    /\ domainData # JNull
    /\ ItemTruthy(localStorage, DOMAIN_DATA_KEY)

----------------------------------------------------------------------------
(* Further claims about the server endpoints (checked under SpecServer)    *)

\* the steps of one pdf request, in order
PdfSteps == {<<first, "banner", "render", "reply">> : first \in {"strip", "wrap"}}
IsPrefix(s, t) == Len(s) <= Len(t) /\ s = SubSeq(t, 1, Len(s))

\* C27: the steps of a pdf request are a prefix of strip-or-wrap, banner,
\* render, reply (so at most one render and one reply); the reply call is
\* issued by the step in which the render call succeeded; a 200 is written
\* by the step in which the reply call reported no error.
C27_PdfStepsInOrder ==
    [][req'.endpoint = "pdf" =>
         /\ \E steps \in PdfSteps : IsPrefix(effects', steps)
         /\ (effects' # effects /\ effects'[Len(effects')] = "reply") =>
                PdfRenderDone([kind |-> "ok"])
         /\ (responses' # responses /\ responses'[Len(responses')].status = 200) =>
                PdfReplyDone([kind |-> "ok"])]_vars

\* C27 witness: an HTML email went through all four steps and was answered
\* with the success response.
C27_Witness ==
    /\ req.endpoint = "pdf"
    /\ pc = "done"
    /\ effects = <<"strip", "banner", "render", "reply">>
    /\ Len(responses) = 1
    /\ responses[1].status = 200

----------------------------------------------------------------------------
(* Further claims about the AI-analysis webhook (checked under SpecReplay) *)

\* C28: reply attempts for different emails (different email ids) never
\* carry the same idempotency key, and a reply is suppressed as a duplicate
\* only when a reply to the same email has been sent, also for emails
\* without a messageId.
C28_KeysSeparateEmails ==
    /\ \A a, b \in DOMAIN attempts :
          attempts[a].emailId # attempts[b].emailId => attempts[a].key # attempts[b].key
    /\ \A i \in DOMAIN deliveries :
          deliveries[i].phase = "deduplicated" =>
              \E n \in DOMAIN outbound : outbound[n].emailId = deliveries[i].email.id

\* C29: a POST /api/emails with from, to, subject and html or text, and the
\* API key configured, is forwarded to the upstream exactly once; a request
\* missing a required field is answered with 400 and nothing is forwarded.
C29_EmailProxyForwardsOnce ==
    (pc = "done" /\ req.endpoint = "emailsPost" /\ req.body.kind = "object") =>
        /\ MissingRequired(req) =>
              /\ Len(responses) = 1
              /\ responses[1].status = 400
              /\ effects = <<>>
        /\ (~MissingRequired(req) /\ req.apiKey) => effects = <<"upstream">>

----------------------------------------------------------------------------
(* The copy indicator of the wizard: copyToClipboard and its timers.  All  *)
(* timers run for the same 2000 ms, so they fire in the order in which     *)
(* they were started.                                                      *)

\* fieldKey of the copy buttons: a record's name and value, the zone file
FieldKeys == {"name-0", "value-0", "zonefile"}

\* setTimeout(() => setCopiedField(null), 2000)
TimerClears(current, timer) == "null"

\* copyToClipboard up to the await of navigator.clipboard.writeText
copyToClipboard(fieldKey) ==
    /\ copies < MaxCopies
    /\ copies' = copies + 1
    /\ clipboardWrites' = Append(clipboardWrites, [fieldKey |-> fieldKey, copy |-> copies + 1])
    /\ UNCHANGED <<copiedField, timers, indicatorCopy>>
    /\ UNCHANGED nonCopyVars

\* copyToClipboard from the await on: setCopiedField(fieldKey) and the
\* timer, or the catch block when the write was rejected
ClipboardWriteSettled(i, ok) ==
    /\ i \in DOMAIN clipboardWrites
    /\ clipboardWrites' = RemoveAt(clipboardWrites, i)
    /\ IF ok
       THEN /\ copiedField' = clipboardWrites[i].fieldKey
            /\ indicatorCopy' = clipboardWrites[i].copy
            /\ timers' = Append(timers, clipboardWrites[i])
       ELSE UNCHANGED <<copiedField, indicatorCopy, timers>>
    /\ UNCHANGED copies
    /\ UNCHANGED nonCopyVars

\* the oldest timer fires
TimerFires ==
    /\ timers # <<>>
    /\ copiedField' = TimerClears(copiedField, Head(timers))
    /\ timers' = Tail(timers)
    /\ UNCHANGED <<clipboardWrites, copies, indicatorCopy>>
    /\ UNCHANGED nonCopyVars

InitCopy ==
    /\ WizardInit
    /\ localStorage = EmptyStorage
    /\ ValidatorIdle
    /\ ServerIdle
    /\ ReplayIdle
    /\ StripIdle
    /\ ComposerIdle
    /\ ClientIdle
    /\ ViewerIdle
    /\ CopyIdle

NextCopy ==
    \/ \E fieldKey \in FieldKeys : copyToClipboard(fieldKey)
    \/ \E i \in 1..MaxCopies, ok \in BOOLEAN : ClipboardWriteSettled(i, ok)
    \/ TimerFires

SpecCopy == InitCopy /\ [][NextCopy]_vars

\* C30: the indicator set by a copy is cleared only by the timer of that
\* same copy; a timer started by an earlier copy never clears it.
C30_IndicatorClearedByOwnTimer ==
    [][(copiedField # "null" /\ copiedField' = "null") =>
          /\ timers # <<>>
          /\ Head(timers).copy = indicatorCopy]_vars

====
